---- MODULE Spec2Model ----
(***************************************************************************)
(* CollabBoard python-agent: the spatial layout service, the deterministic *)
(* command router and run_agent, as a state machine.                       *)
(*                                                                         *)
(* Coordinates are whole pixels.  A board object is a record that carries  *)
(* only the keys its dict carries, so obj.get(key, default) is modelled by *)
(* Get.  A string that the code inspects character by character (the       *)
(* command) is a sequence of one-character strings.                        *)
(***************************************************************************)
EXTENDS Integers, Sequences, FiniteSets, TLC

VARIABLES
    \* layout service, called on its own
    board,       \* the board_state list the client currently holds
    lcall,       \* the layout call in progress ([op |-> "none"] when idle)
    lresult,     \* the (x, y) returned by that call
    \* deterministic router, called on its own
    rcall,       \* the try_deterministic_route call in progress
    rresult,     \* what it returned
    \* the service: one worker thread per /command request
    pc,                    \* where each worker thread is in handle_command / run_agent
    req,                   \* the AgentCommandRequest each thread is serving
    run_trace_id,              \* run_agent's trace_id
    deterministic_result,  \* run_agent's deterministic_result
    tool_set_key,          \* run_agent's tool_set_key
    agent,                 \* the agent get_agent returned to the thread
    result,                \* what run_agent returned
    calls,                 \* the calls run_agent has made so far, in order
    tool_reads,            \* the board states the layout tools of this invocation read
    current_board_state,   \* board_tools._current_board_state
    records,               \* cost_tracker.records
    agent_cache,           \* agent._agent_cache, in insertion order
    api_keys,              \* the providers whose API key is set in settings (the
                           \* deployment modelled has openai_api_key only)
    served,                \* requests received so far
    agents_built           \* agents created so far

layoutVars == <<board, lcall, lresult>>
routerVars == <<rcall, rresult>>
threadVars == <<pc, req, run_trace_id, deterministic_result, tool_set_key, agent, result,
                calls, tool_reads>>
globalVars == <<current_board_state, records, agent_cache, api_keys, served, agents_built>>
vars == <<layoutVars, routerVars, threadVars, globalVars>>

(***************************************************************************)
(* Bounds of the model                                                     *)
(***************************************************************************)
MaxObjs == 2         \* longest board_state list the layout service is called with
MaxRouteObjs == 1    \* longest board_state list the router is called with on its own
MaxRequests == 2     \* requests received by the service
MaxToolCalls == 1    \* layout tool calls of one agent invocation
MaxGetAgentCalls == 3 \* get_agent calls made on the prefilled cache

(***************************************************************************)
(* Small helpers                                                           *)
(***************************************************************************)
Max(a, b) == IF a >= b THEN a ELSE b
Min(a, b) == IF a <= b THEN a ELSE b

\* dict.get(key, default)
Get(obj, key, default) == IF key \in DOMAIN obj THEN obj[key] ELSE default

\* min(...) / max(...) of a non-empty sequence of numbers
SeqMin(s) == CHOOSE m \in {s[i] : i \in 1..Len(s)} : \A i \in 1..Len(s) : m <= s[i]
SeqMax(s) == CHOOSE m \in {s[i] : i \in 1..Len(s)} : \A i \in 1..Len(s) : m >= s[i]

(***************************************************************************)
(* layout_service.py                                                       *)
(***************************************************************************)
CANVAS_WIDTH == 4000
CANVAS_HEIGHT == 3000

BBox(x, y, width, height) == [x |-> x, y |-> y, width |-> width, height |-> height]

right(b) == b.x + b.width
bottom(b) == b.y + b.height

\* overlaps with the padding added on the receiver's side only
overlaps_padding_on_self_only(self, other, padding) ==
    ~ ( \/ right(self) + padding <= other.x
        \/ right(other) <= self.x
        \/ bottom(self) + padding <= other.y
        \/ bottom(other) <= self.y )

overlaps(self, other, padding) ==
    ~ ( \/ right(self) + padding <= other.x
        \/ right(other) + padding <= self.x
        \/ bottom(self) + padding <= other.y
        \/ bottom(other) + padding <= self.y )

\* _extract_bboxes with a box for every object, connectors included
extract_bboxes_with_connectors(board_state) ==
    [i \in 1..Len(board_state) |->
        BBox(Get(board_state[i], "x", 0), Get(board_state[i], "y", 0),
             Get(board_state[i], "width", 200), Get(board_state[i], "height", 200))]

\* _extract_bboxes: connectors are skipped, the input order is kept
extract_bboxes(board_state) ==
    LET kept == SelectSeq(board_state, LAMBDA obj : Get(obj, "type", "None") # "connector")
    IN  [i \in 1..Len(kept) |->
            BBox(Get(kept[i], "x", 0), Get(kept[i], "y", 0),
                 Get(kept[i], "width", 200), Get(kept[i], "height", 200))]

\* get_board_bounds with max_x and max_y taken over the boxes' top left corners
get_board_bounds_of_corners(board_state) ==
    LET bboxes == extract_bboxes(board_state)
    IN  IF bboxes = <<>>
        THEN [min_x |-> 0, min_y |-> 0, max_x |-> 0, max_y |-> 0,
              total_width |-> 0, total_height |-> 0, object_count |-> 0]
        ELSE LET min_x == SeqMin([i \in 1..Len(bboxes) |-> bboxes[i].x])
                 min_y == SeqMin([i \in 1..Len(bboxes) |-> bboxes[i].y])
                 max_x == SeqMax([i \in 1..Len(bboxes) |-> bboxes[i].x])
                 max_y == SeqMax([i \in 1..Len(bboxes) |-> bboxes[i].y])
             IN  [min_x |-> min_x, min_y |-> min_y, max_x |-> max_x, max_y |-> max_y,
                  total_width |-> max_x - min_x, total_height |-> max_y - min_y,
                  object_count |-> Len(bboxes)]

get_board_bounds(board_state) ==
    LET bboxes == extract_bboxes(board_state)
    IN  IF bboxes = <<>>
        THEN [min_x |-> 0, min_y |-> 0, max_x |-> 0, max_y |-> 0,
              total_width |-> 0, total_height |-> 0, object_count |-> 0]
        ELSE LET min_x == SeqMin([i \in 1..Len(bboxes) |-> bboxes[i].x])
                 min_y == SeqMin([i \in 1..Len(bboxes) |-> bboxes[i].y])
                 max_x == SeqMax([i \in 1..Len(bboxes) |-> right(bboxes[i])])
                 max_y == SeqMax([i \in 1..Len(bboxes) |-> bottom(bboxes[i])])
             IN  [min_x |-> min_x, min_y |-> min_y, max_x |-> max_x, max_y |-> max_y,
                  total_width |-> max_x - min_x, total_height |-> max_y - min_y,
                  object_count |-> Len(bboxes)]

\* open_clamp with the upper limit taken as the canvas edge itself
open_clamp_canvas_edge(x, y, needed_width, needed_height) ==
    << Max(0, Min(x, CANVAS_WIDTH)), Max(0, Min(y, CANVAS_HEIGHT)) >>

\* the clamp closure of find_open_position
open_clamp(x, y, needed_width, needed_height) ==
    << Max(0, Min(x, CANVAS_WIDTH - needed_width)),
       Max(0, Min(y, CANVAS_HEIGHT - needed_height)) >>

\* find_open_position with the "auto" comparison strict (board_w < board_h)
find_open_position_strict_auto(board_state, needed_width, needed_height, padding, prefer) ==
    LET bboxes == extract_bboxes(board_state)
        bounds == get_board_bounds(board_state)
        board_w == bounds.max_x - bounds.min_x
        board_h == bounds.max_y - bounds.min_y
    IN  IF bboxes = <<>> THEN <<100, 100>>
        ELSE IF prefer = "right"
             THEN open_clamp(bounds.max_x + padding, bounds.min_y, needed_width, needed_height)
        ELSE IF prefer = "below"
             THEN open_clamp(bounds.min_x, bounds.max_y + padding, needed_width, needed_height)
        ELSE IF board_w < board_h
             THEN open_clamp(bounds.max_x + padding, bounds.min_y, needed_width, needed_height)
             ELSE open_clamp(bounds.min_x, bounds.max_y + padding, needed_width, needed_height)

find_open_position(board_state, needed_width, needed_height, padding, prefer) ==
    LET bboxes == extract_bboxes(board_state)
        bounds == get_board_bounds(board_state)
        max_x == bounds.max_x
        max_y == bounds.max_y
        min_x == bounds.min_x
        min_y == bounds.min_y
        board_w == max_x - min_x
        board_h == max_y - min_y
    IN  IF bboxes = <<>> THEN <<100, 100>>
        ELSE IF prefer = "right"
             THEN open_clamp(max_x + padding, min_y, needed_width, needed_height)
        ELSE IF prefer = "below"
             THEN open_clamp(min_x, max_y + padding, needed_width, needed_height)
        ELSE IF board_w <= board_h
             THEN open_clamp(max_x + padding, min_y, needed_width, needed_height)
             ELSE open_clamp(min_x, max_y + padding, needed_width, needed_height)

\* the clamp closure of find_insert_position
insert_clamp(x, y, item_width, item_height) ==
    << Max(0, Min(x, CANVAS_WIDTH - item_width)),
       Max(0, Min(y, CANVAS_HEIGHT - item_height)) >>

\* range(1, 20): the ring distances 1..19
RING_STOP == 20
RingDistances == 1..(RING_STOP - 1)

\* ring_offsets with "below" tried before "right"
ring_offsets_below_first(distance, step) ==
    << <<0, distance * step>>,                  \* below
       <<distance * step, 0>>,                  \* right
       <<(0 - distance) * step, 0>>,            \* left
       <<0, (0 - distance) * step>>,            \* above
       <<distance * step, distance * step>> >>  \* diagonal

\* the five offsets of one ring, in the order they are tried
ring_offsets(distance, step) ==
    << <<distance * step, 0>>,                  \* right
       <<0, distance * step>>,                  \* below
       <<(0 - distance) * step, 0>>,            \* left
       <<0, (0 - distance) * step>>,            \* above
       <<distance * step, distance * step>> >>  \* diagonal

\* ring_probes with the ring step taken as the item's width alone
ring_probes_step_without_padding(target_x, target_y, item_width, item_height, padding) ==
    LET step == item_width
        n == Len(ring_offsets(1, step))
    IN  [k \in 1..(n * Cardinality(RingDistances)) |->
            LET distance == ((k - 1) \div n) + 1
                off == ring_offsets(distance, step)[((k - 1) % n) + 1]
            IN  insert_clamp(target_x + off[1], target_y + off[2], item_width, item_height)]

\* the clamped probe positions in the order the two nested loops visit them
ring_probes(target_x, target_y, item_width, item_height, padding) ==
    LET step == item_width + padding
        n == Len(ring_offsets(1, step))
    IN  [k \in 1..(n * Cardinality(RingDistances)) |->
            LET distance == ((k - 1) \div n) + 1
                off == ring_offsets(distance, step)[((k - 1) % n) + 1]
            IN  insert_clamp(target_x + off[1], target_y + off[2], item_width, item_height)]

\* is_free with the padding argument of overlaps left at its default 0
is_free_default_padding(pos, item_width, item_height, padding, bboxes) ==
    \A i \in 1..Len(bboxes) :
        ~ overlaps(BBox(pos[1], pos[2], item_width, item_height), bboxes[i], 0)

\* not any(candidate.overlaps(b, padding) for b in bboxes)
is_free(pos, item_width, item_height, padding, bboxes) ==
    \A i \in 1..Len(bboxes) :
        ~ overlaps(BBox(pos[1], pos[2], item_width, item_height), bboxes[i], padding)

find_insert_position(board_state, target_x, target_y, item_width, item_height, padding) ==
    LET bboxes == extract_bboxes(board_state)
        target == insert_clamp(target_x, target_y, item_width, item_height)
        probes == ring_probes(target[1], target[2], item_width, item_height, padding)
        hits == {k \in 1..Len(probes) : is_free(probes[k], item_width, item_height, padding, bboxes)}
        max_x == IF bboxes = <<>> THEN 0
                 ELSE SeqMax([i \in 1..Len(bboxes) |-> right(bboxes[i])])
    IN  IF is_free(target, item_width, item_height, padding, bboxes) THEN target
        ELSE IF hits # {} THEN probes[CHOOSE k \in hits : \A j \in hits : k <= j]
        ELSE insert_clamp(max_x + padding, target[2], item_width, item_height)

(***************************************************************************)
(* The layout service on arbitrary decoded JSON                            *)
(*                                                                         *)
(* board_state arrives from the client as decoded JSON, so a geometry key  *)
(* can hold null or a string.  Such a value is carried in the object's     *)
(* non_numeric field (key |-> "null" or "string"); obj.get(key, default)   *)
(* returns it as it is, the default applies to a missing key only, and the *)
(* first arithmetic or comparison that touches it raises TypeError.        *)
(***************************************************************************)
GeometryKeys == {"x", "y", "width", "height"}

\* the geometry keys of one object that hold a value that is not a number
NonNumeric(obj) ==
    IF "non_numeric" \in DOMAIN obj THEN (DOMAIN obj.non_numeric) \cap GeometryKeys ELSE {}

\* the objects _extract_bboxes builds a box for, in input order
kept_objects(board_state) ==
    SelectSeq(board_state, LAMBDA obj : Get(obj, "type", "None") # "connector")

Returned(value) == [outcome |-> "returned", value |-> value]
Raised(exception) == [outcome |-> "raised", exception |-> exception]

\* min, max, b.right, b.bottom and the two subtractions of get_board_bounds
\* touch every field of every box
get_board_bounds_raises(board_state) ==
    \E i \in 1..Len(kept_objects(board_state)) : NonNumeric(kept_objects(board_state)[i]) # {}

call_get_board_bounds(board_state) ==
    IF get_board_bounds_raises(board_state) THEN Raised("TypeError")
    ELSE Returned(get_board_bounds(board_state))

\* an empty list of boxes returns before anything is computed
call_find_open_position(board_state, needed_width, needed_height, padding, prefer) ==
    IF kept_objects(board_state) # <<>> /\ get_board_bounds_raises(board_state)
    THEN Raised("TypeError")
    ELSE Returned(find_open_position(board_state, needed_width, needed_height, padding, prefer))

\* candidate.overlaps(b, padding) for one box: the four comparisons are
\* evaluated left to right and the first true one ends the evaluation
overlaps_outcome(self, obj, padding) ==
    LET other == BBox(Get(obj, "x", 0), Get(obj, "y", 0),
                      Get(obj, "width", 200), Get(obj, "height", 200))
        bad == NonNumeric(obj)
    IN  IF "x" \in bad THEN "raised"
        ELSE IF right(self) + padding <= other.x THEN "clear"
        ELSE IF "width" \in bad THEN "raised"
        ELSE IF right(other) + padding <= self.x THEN "clear"
        ELSE IF "y" \in bad THEN "raised"
        ELSE IF bottom(self) + padding <= other.y THEN "clear"
        ELSE IF "height" \in bad THEN "raised"
        ELSE IF bottom(other) + padding <= self.y THEN "clear"
        ELSE "overlaps"

\* any(candidate.overlaps(b, padding) for b in bboxes): the boxes are visited
\* in order until one overlaps or raises
any_overlaps_outcome(pos, item_width, item_height, padding, kept) ==
    LET self == BBox(pos[1], pos[2], item_width, item_height)
        stops == {i \in 1..Len(kept) : overlaps_outcome(self, kept[i], padding) # "clear"}
    IN  IF stops = {} THEN "free"
        ELSE overlaps_outcome(self, kept[CHOOSE i \in stops : \A j \in stops : i <= j], padding)

find_insert_position_raises(board_state, target_x, target_y, item_width, item_height, padding) ==
    LET kept == kept_objects(board_state)
        target == insert_clamp(target_x, target_y, item_width, item_height)
        candidates == <<target>> \o ring_probes(target[1], target[2], item_width, item_height, padding)
        decided == {k \in 1..Len(candidates) :
                       any_overlaps_outcome(candidates[k], item_width, item_height, padding, kept)
                           # "overlaps"}
    IN  IF decided # {}
        THEN any_overlaps_outcome(candidates[CHOOSE k \in decided : \A j \in decided : k <= j],
                                  item_width, item_height, padding, kept) = "raised"
        ELSE \* max((b.right for b in bboxes), default=0)
             \E i \in 1..Len(kept) : NonNumeric(kept[i]) \cap {"x", "width"} # {}

call_find_insert_position(board_state, target_x, target_y, item_width, item_height, padding) ==
    IF find_insert_position_raises(board_state, target_x, target_y, item_width, item_height, padding)
    THEN Raised("TypeError")
    ELSE Returned(find_insert_position(board_state, target_x, target_y, item_width, item_height, padding))

RegionNames == <<"top-left", "top-right", "bottom-left", "bottom-right">>

\* describe_board_layout: the quantities the sentence is built from
describe_board_layout(board_state) ==
    LET bboxes == extract_bboxes(board_state)
        kept == kept_objects(board_state)
        bounds == get_board_bounds(board_state)
        \* cx < mid_x and cy < mid_y, with both sides doubled
        region(b) ==
            LET h == IF 2 * b.x + b.width < bounds.min_x + bounds.max_x THEN "left" ELSE "right"
                v == IF 2 * b.y + b.height < bounds.min_y + bounds.max_y THEN "top" ELSE "bottom"
            IN  IF v = "top" THEN (IF h = "left" THEN "top-left" ELSE "top-right")
                ELSE (IF h = "left" THEN "bottom-left" ELSE "bottom-right")
        regions == [r \in {RegionNames[k] : k \in 1..Len(RegionNames)} |->
                       Cardinality({i \in 1..Len(bboxes) : region(bboxes[i]) = r})]
        types == {Get(kept[i], "type", "unknown") : i \in 1..Len(kept)}
        type_counts == [t \in types |->
                           Cardinality({i \in 1..Len(kept) : Get(kept[i], "type", "unknown") = t})]
    IN  IF bboxes = <<>>
        THEN [empty |-> TRUE, canvas |-> <<CANVAS_WIDTH, CANVAS_HEIGHT>>, start |-> <<100, 100>>]
        ELSE [empty |-> FALSE, canvas |-> <<CANVAS_WIDTH, CANVAS_HEIGHT>>,
              object_count |-> Len(bboxes), type_counts |-> type_counts,
              occupied_from |-> <<bounds.min_x, bounds.min_y>>,
              occupied_to |-> <<bounds.max_x, bounds.max_y>>,
              occupied_size |-> <<bounds.total_width, bounds.total_height>>,
              open_right_x |-> bounds.max_x + 40, open_below_y |-> bounds.max_y + 40,
              dense_regions |-> SelectSeq(RegionNames, LAMBDA r : 4 * regions[r] > Len(bboxes)),
              sparse_regions |-> SelectSeq(RegionNames, LAMBDA r : regions[r] = 0)]

call_describe_board_layout(board_state) ==
    IF kept_objects(board_state) # <<>> /\ get_board_bounds_raises(board_state)
    THEN Raised("TypeError")
    ELSE Returned(describe_board_layout(board_state))

(***************************************************************************)
(* Strings and the re module, as far as agent.py uses them                 *)
(*                                                                         *)
(* A pattern is a tree of nodes.  Matching a node at a position yields the *)
(* sequence of all ways it can match there, in the order Python's          *)
(* backtracking matcher tries them; the first element of the sequence for  *)
(* the whole pattern is the match that re.match returns.                   *)
(***************************************************************************)
UpperCase == <<"A","B","C","D","E","F","G","H","I","J","K","L","M",
               "N","O","P","Q","R","S","T","U","V","W","X","Y","Z">>
LowerCase == <<"a","b","c","d","e","f","g","h","i","j","k","l","m",
               "n","o","p","q","r","s","t","u","v","w","x","y","z">>
Digits == {"0","1","2","3","4","5","6","7","8","9"}

\* str.lower() of one character
LowerChar(c) ==
    IF \E k \in 1..Len(UpperCase) : UpperCase[k] = c
    THEN LowerCase[CHOOSE k \in 1..Len(UpperCase) : UpperCase[k] = c]
    ELSE c

\* The letters outside ASCII that a case-insensitive pattern takes for "i": the
\* dotted capital I (U+0130) and the dotless small i (U+0131).  Each is one
\* character of the text, written here by its code point; U+0307 is the combining
\* dot that str.lower() puts after the "i" it makes of U+0130.
DottedCapitalI == "U+0130"
DotlessSmallI == "U+0131"
CombiningDot == "U+0307"

\* the character re.IGNORECASE compares by
FoldChar(c) == IF c \in {DottedCapitalI, DotlessSmallI} THEN "i" ELSE LowerChar(c)

RECURSIVE LowerRange(_, _, _)
\* str.lower() of s[lo..hi]
LowerRange(s, lo, hi) ==
    IF lo > hi THEN <<>>
    ELSE IF lo = hi
         THEN (IF s[lo] = DottedCapitalI THEN <<"i", CombiningDot>> ELSE <<LowerChar(s[lo])>>)
         ELSE LET mid == (lo + hi) \div 2
              IN  LowerRange(s, lo, mid) \o LowerRange(s, mid + 1, hi)

\* str.lower()
Lower(s) == LowerRange(s, 1, Len(s))

\* \s
WhiteSpace == {" ", "\t", "\n", "\r", "\f"}
\* \w
WordChars == {UpperCase[k] : k \in 1..Len(UpperCase)} \cup
             {LowerCase[k] : k \in 1..Len(LowerCase)} \cup Digits \cup {"_"} \cup
             {DottedCapitalI, DotlessSmallI}

\* s[a:b] with 1-based a and exclusive b
Slice(s, a, b) == [i \in 1..(b - a) |-> s[a + i - 1]]

\* str.strip(chars): drop the characters of chars from both ends
StripChars(s, chars) ==
    LET keep == {i \in 1..Len(s) : s[i] \notin chars}
    IN  IF keep = {} THEN <<>>
        ELSE LET first == CHOOSE i \in keep : \A j \in keep : i <= j
                 last == CHOOSE i \in keep : \A j \in keep : i >= j
             IN  Slice(s, first, last + 1)

\* str.strip()
Strip(s) == StripChars(s, WhiteSpace)

GroupNames == {"obj_id", "obj_type", "obj_text", "rest", "color", "text"}
Unset == <<0, 0>>

Lit(w)      == [t |-> "lit", w |-> w]
Cls(c)      == [t |-> "cls", c |-> c, neg |-> FALSE]
NotCls(c)   == [t |-> "cls", c |-> c, neg |-> TRUE]
Dot         == [t |-> "dot"]
Cat(xs)     == [t |-> "cat", xs |-> xs]
Alt(xs)     == [t |-> "alt", xs |-> xs]
Opt(x)      == [t |-> "opt", x |-> x]
\* x*, x+ and x+? for a one-character x (a class or the dot)
Star(x)     == [t |-> "rep", x |-> x, min |-> 0, greedy |-> TRUE]
Plus(x)     == [t |-> "rep", x |-> x, min |-> 1, greedy |-> TRUE]
LazyPlus(x) == [t |-> "rep", x |-> x, min |-> 1, greedy |-> FALSE]
Grp(n, x)   == [t |-> "grp", n |-> n, x |-> x]
Bos         == [t |-> "bos"]
Eos         == [t |-> "eos"]

\* whether the one-character node x accepts the character c
CharMatches(x, c, fl) ==
    LET fold(d) == IF fl.ignorecase THEN FoldChar(d) ELSE d
    IN  IF x.t = "dot" THEN fl.dotall \/ c # "\n"
        ELSE (fold(c) \in {fold(d) : d \in x.c}) # x.neg

RECURSIVE ReMatchNode(_, _, _, _)
RECURSIVE ReMatchEach(_, _, _, _, _, _)
RECURSIVE ReMatchCat(_, _, _, _, _)
RECURSIVE ReMatchAlt(_, _, _, _, _)

\* the matches of node from each of the states rs[lo..hi], concatenated in order
ReMatchEach(rs, lo, hi, node, s, fl) ==
    IF lo > hi THEN <<>>
    ELSE IF lo = hi THEN ReMatchNode(node, s, rs[lo], fl)
    ELSE LET mid == (lo + hi) \div 2
         IN  ReMatchEach(rs, lo, mid, node, s, fl) \o ReMatchEach(rs, mid + 1, hi, node, s, fl)

\* xs[k..] matched one after the other from the states rs
ReMatchCat(xs, k, s, rs, fl) ==
    IF k > Len(xs) \/ rs = <<>> THEN rs
    ELSE ReMatchCat(xs, k + 1, s, ReMatchEach(rs, 1, Len(rs), xs[k], s, fl), fl)

\* the alternatives xs[k..] tried in order from the state st
ReMatchAlt(xs, k, s, st, fl) ==
    IF k > Len(xs) THEN <<>>
    ELSE ReMatchNode(xs[k], s, st, fl) \o ReMatchAlt(xs, k + 1, s, st, fl)

ReMatchNode(node, s, st, fl) ==
    LET i == st.pos
        at(p) == [st EXCEPT !.pos = p]
        fold(c) == IF fl.ignorecase THEN FoldChar(c) ELSE c
    IN  CASE node.t = "lit" ->
                IF /\ i + Len(node.w) - 1 <= Len(s)
                   /\ \A k \in 1..Len(node.w) : fold(s[i + k - 1]) = fold(node.w[k])
                THEN <<at(i + Len(node.w))>> ELSE <<>>
          [] node.t \in {"cls", "dot"} ->
                IF i <= Len(s) /\ CharMatches(node, s[i], fl) THEN <<at(i + 1)>> ELSE <<>>
          [] node.t = "cat" -> ReMatchCat(node.xs, 1, s, <<st>>, fl)
          [] node.t = "alt" -> ReMatchAlt(node.xs, 1, s, st, fl)
          [] node.t = "opt" -> ReMatchNode(node.x, s, st, fl) \o <<st>>
          [] node.t = "rep" ->
                \* the run of accepted characters is s[i..stop-1]; a greedy repetition
                \* tries the longest count first, a lazy one the shortest first
                LET rejected == {j \in i..Len(s) : ~ CharMatches(node.x, s[j], fl)}
                    stop == IF rejected = {} THEN Len(s) + 1
                            ELSE CHOOSE j \in rejected : \A k \in rejected : j <= k
                    lo == i + node.min
                IN  IF lo > stop THEN <<>>
                    ELSE [k \in 1..(stop - lo + 1) |->
                            at(IF node.greedy THEN stop - k + 1 ELSE lo + k - 1)]
          [] node.t = "grp" ->
                LET rs == ReMatchNode(node.x, s, st, fl)
                IN  [k \in 1..Len(rs) |-> [rs[k] EXCEPT !.caps[node.n] = <<i, rs[k].pos>>]]
          [] node.t = "bos" -> IF i = 1 THEN <<st>> ELSE <<>>
          [] node.t = "eos" ->
                IF i = Len(s) + 1 \/ (i = Len(s) /\ s[i] = "\n") THEN <<st>> ELSE <<>>

\* pattern.match(s): the match object, or NoMatch for None
NoMatch == [matched |-> FALSE]
ReMatch(pattern, s) ==
    LET rs == ReMatchNode(pattern.re, s, [pos |-> 1, caps |-> [g \in GroupNames |-> Unset]],
                          pattern.flags)
    IN  IF rs = <<>> THEN NoMatch ELSE [matched |-> TRUE, caps |-> rs[1].caps, string |-> s]

\* m.group(name) or "": a group that did not take part yields None, which `or` turns into ""
GroupOrEmpty(m, name) ==
    IF m.caps[name] = Unset THEN <<>> ELSE Slice(m.string, m.caps[name][1], m.caps[name][2])

(***************************************************************************)
(* agent.py: the deterministic command router                              *)
(***************************************************************************)
\* the string literals of the router, one character per element
S_create == <<"c", "r", "e", "a", "t", "e">>
S_add == <<"a", "d", "d">>
S_make == <<"m", "a", "k", "e">>
S_put == <<"p", "u", "t">>
S_sticky == <<"s", "t", "i", "c", "k", "y">>
S_note == <<"n", "o", "t", "e">>
S_saying == <<"s", "a", "y", "i", "n", "g">>
S_with == <<"w", "i", "t", "h">>
S_text == <<"t", "e", "x", "t">>
S_that == <<"t", "h", "a", "t">>
S_says == <<"s", "a", "y", "s">>
S_titled == <<"t", "i", "t", "l", "e", "d">>
S_fit == <<"f", "i", "t">>
S_view == <<"v", "i", "e", "w">>
S_to == <<"t", "o">>
S_screen == <<"s", "c", "r", "e", "e", "n">>
S_everything == <<"e", "v", "e", "r", "y", "t", "h", "i", "n", "g">>
S_zoom == <<"z", "o", "o", "m">>
S_show == <<"s", "h", "o", "w">>
S_all == <<"a", "l", "l">>
S_see == <<"s", "e", "e">>
S_delete == <<"d", "e", "l", "e", "t", "e">>
S_remove == <<"r", "e", "m", "o", "v", "e">>
S_this == <<"t", "h", "i", "s">>
S_it == <<"i", "t">>
S_the == <<"t", "h", "e">>
S_change == <<"c", "h", "a", "n", "g", "e">>
S_into == <<"i", "n", "t", "o">>
S_set == <<"s", "e", "t">>
S_color == <<"c", "o", "l", "o", "r">>
S_yellow == <<"y", "e", "l", "l", "o", "w">>
S_blue == <<"b", "l", "u", "e">>
S_green == <<"g", "r", "e", "e", "n">>
S_red == <<"r", "e", "d">>
S_purple == <<"p", "u", "r", "p", "l", "e">>
S_orange == <<"o", "r", "a", "n", "g", "e">>
S_pink == <<"p", "i", "n", "k">>
S_white == <<"w", "h", "i", "t", "e">>
S_selected_head == <<"[", "S", "e", "l", "e", "c", "t", "e", "d", " ",
                      "o", "b", "j", "e", "c", "t", ":", " ", "i", "d", "=">>
S_type_eq == <<"t", "y", "p", "e", "=">>
S_text_eq == <<"t", "e", "x", "t", "=", "\"">>

ColorWords == Alt(<< Lit(S_yellow), Lit(S_blue), Lit(S_green), Lit(S_red),
                     Lit(S_purple), Lit(S_orange), Lit(S_pink), Lit(S_white) >>)

\* _COLOR_MAP with pink given the hex of red
COLOR_MAP_pink_as_red ==
    [w \in {S_yellow, S_blue, S_green, S_red, S_purple, S_orange, S_pink, S_white} |->
        CASE w = S_yellow -> "#FEF08A"
          [] w = S_blue -> "#93C5FD"
          [] w = S_green -> "#86EFAC"
          [] w = S_red -> "#FCA5A5"
          [] w = S_purple -> "#DDD6FE"
          [] w = S_orange -> "#FED7AA"
          [] w = S_pink -> "#FCA5A5"
          [] w = S_white -> "#FFFFFF"]

COLOR_MAP ==
    [w \in {S_yellow, S_blue, S_green, S_red, S_purple, S_orange, S_pink, S_white} |->
        CASE w = S_yellow -> "#FEF08A"
          [] w = S_blue -> "#93C5FD"
          [] w = S_green -> "#86EFAC"
          [] w = S_red -> "#FCA5A5"
          [] w = S_purple -> "#DDD6FE"
          [] w = S_orange -> "#FED7AA"
          [] w = S_pink -> "#FECACA"
          [] w = S_white -> "#FFFFFF"]

Ws == Cls(WhiteSpace)
NoCommaBracket == NotCls({",", "]"})

\* the marker pattern without its leading ^ (searched for, not matched at the start)
SELECTED_OBJ_RE_unanchored ==
    [flags |-> [ignorecase |-> FALSE, dotall |-> TRUE],
     re |-> Cat(<< [t |-> "rep", x |-> Dot, min |-> 0, greedy |-> FALSE],
                   Lit(S_selected_head),
                   Grp("obj_id", Plus(NoCommaBracket)),
                   Lit(<<",">>), Star(Ws),
                   Lit(S_type_eq),
                   Grp("obj_type", Plus(NoCommaBracket)),
                   Opt(Cat(<< Lit(<<",">>), Star(Ws),
                              Lit(S_text_eq),
                              Grp("obj_text", Star(NotCls({"\""}))),
                              Lit(<<"\"">>) >>)),
                   Lit(<<"]">>), Star(Ws),
                   Grp("rest", Plus(Dot)),
                   Eos >>)]

SELECTED_OBJ_RE ==
    [flags |-> [ignorecase |-> FALSE, dotall |-> TRUE],
     re |-> Cat(<< Bos,
                   Lit(S_selected_head),   \* "[Selected object: id="
                   Grp("obj_id", Plus(NoCommaBracket)),
                   Lit(<<",">>), Star(Ws),
                   Lit(S_type_eq),   \* "type="
                   Grp("obj_type", Plus(NoCommaBracket)),
                   Opt(Cat(<< Lit(<<",">>), Star(Ws),
                              Lit(S_text_eq),   \* text="
                              Grp("obj_text", Star(NotCls({"\""}))),
                              Lit(<<"\"">>) >>)),
                   Lit(<<"]">>), Star(Ws),
                   Grp("rest", Plus(Dot)),
                   Eos >>)]

STICKY_RE ==
    [flags |-> [ignorecase |-> TRUE, dotall |-> FALSE],
     re |-> Cat(<< Bos,
                   Alt(<< Lit(S_create), Lit(S_add), Lit(S_make), Lit(S_put) >>),
                   Plus(Ws),
                   Opt(Cat(<< Lit(<<"a">>), Plus(Ws) >>)),
                   Opt(Cat(<< Grp("color", ColorWords), Plus(Ws) >>)),
                   Lit(S_sticky),   \* "sticky"
                   Star(Ws),
                   Opt(Cat(<< Lit(S_note), Star(Ws) >>)),
                   Opt(Alt(<< Lit(S_saying),
                              Cat(<< Lit(S_with), Plus(Ws), Lit(S_text) >>),
                              Cat(<< Lit(S_that), Plus(Ws), Lit(S_says) >>),
                              Lit(S_titled),
                              Lit(<<":">>) >>)),
                   Star(Ws),
                   Opt(Cls({"\"", "'"})),
                   Grp("text", LazyPlus(Dot)),
                   Opt(Cls({"\"", "'"})),
                   Eos >>)]

\* the fit-view pattern without its closing $
FIT_VIEW_RE_open_ended ==
    [flags |-> [ignorecase |-> TRUE, dotall |-> FALSE],
     re |-> Cat(<< Bos,
                   Alt(<< Cat(<< Lit(S_fit), Plus(Ws),
                                 Alt(<< Lit(S_view),
                                        Cat(<< Lit(S_to), Plus(Ws), Lit(S_screen) >>),
                                        Lit(S_everything) >>) >>),
                          Cat(<< Lit(S_zoom), Plus(Ws), Lit(S_to), Plus(Ws), Lit(S_fit) >>),
                          Cat(<< Lit(S_show), Plus(Ws), Lit(S_all) >>),
                          Cat(<< Lit(S_see), Plus(Ws), Lit(S_everything) >>) >>) >>)]

FIT_VIEW_RE ==
    [flags |-> [ignorecase |-> TRUE, dotall |-> FALSE],
     re |-> Cat(<< Bos,
                   Alt(<< Cat(<< Lit(S_fit), Plus(Ws),
                                 Alt(<< Lit(S_view),
                                        Cat(<< Lit(S_to), Plus(Ws), Lit(S_screen) >>),
                                        Lit(S_everything) >>) >>),
                          Cat(<< Lit(S_zoom), Plus(Ws), Lit(S_to), Plus(Ws), Lit(S_fit) >>),
                          Cat(<< Lit(S_show), Plus(Ws), Lit(S_all) >>),
                          Cat(<< Lit(S_see), Plus(Ws), Lit(S_everything) >>) >>),
                   Eos >>)]

\* the delete pattern without its closing \s*$
DELETE_RE_open_ended ==
    [flags |-> [ignorecase |-> TRUE, dotall |-> FALSE],
     re |-> Cat(<< Bos,
                   Alt(<< Lit(S_delete), Lit(S_remove) >>),
                   Plus(Ws),
                   Alt(<< Lit(S_this), Lit(S_it), Lit(S_that),
                          Cat(<< Lit(S_the), Plus(Ws), Plus(Cls(WordChars)) >>) >>) >>)]

DELETE_RE ==
    [flags |-> [ignorecase |-> TRUE, dotall |-> FALSE],
     re |-> Cat(<< Bos,
                   Alt(<< Lit(S_delete), Lit(S_remove) >>),
                   Plus(Ws),
                   Alt(<< Lit(S_this), Lit(S_it), Lit(S_that),
                          Cat(<< Lit(S_the), Plus(Ws), Plus(Cls(WordChars)) >>) >>),
                   Star(Ws),
                   Eos >>)]

RECOLOR_RE ==
    [flags |-> [ignorecase |-> TRUE, dotall |-> FALSE],
     re |-> Cat(<< Bos,
                   Alt(<< Cat(<< Lit(S_make), Plus(Ws), Alt(<< Lit(S_it), Lit(S_this) >>) >>),
                          Cat(<< Lit(S_change), Plus(Ws), Opt(Cat(<< Lit(S_it), Plus(Ws) >>)),
                                 Alt(<< Lit(S_to), Lit(S_into) >>) >>),
                          Cat(<< Lit(S_set), Plus(Ws), Opt(Cat(<< Lit(S_it), Plus(Ws) >>)),
                                 Opt(Cat(<< Lit(S_color), Plus(Ws) >>)), Lit(S_to) >>) >>),
                   Plus(Ws),
                   Grp("color", ColorWords),
                   Star(Ws),
                   Eos >>)]

\* the value None
PyNone == [py_none |-> TRUE]
IsNone(v) == "py_none" \in DOMAIN v

\* _COLOR_MAP.get(color_kw, "#FEF08A") with white as the fallback
color_map_get_white_fallback(color_kw) ==
    IF color_kw \in DOMAIN COLOR_MAP THEN COLOR_MAP[color_kw] ELSE "#FFFFFF"

\* _COLOR_MAP.get(color_kw, "#FEF08A")
color_map_get(color_kw) ==
    IF color_kw \in DOMAIN COLOR_MAP THEN COLOR_MAP[color_kw] ELSE "#FEF08A"

\* int(x): the coordinates of the model are whole pixels
int(x) == x

\* the selected type ignored
selected_type_always_sticky(selected_type) == S_sticky

\* selected_type or "sticky"
selected_type_or_sticky(selected_type) ==
    IF selected_type # <<>> THEN selected_type ELSE S_sticky

\* the tiers with their upper limits excluded
sticky_size_limits_excluded(text_len) ==
    IF text_len < 30 THEN <<160, 100, 16>>
    ELSE IF text_len < 80 THEN <<200, 140, 15>>
    ELSE IF text_len < 150 THEN <<220, 180, 14>>
    ELSE <<250, 220, 13>>

\* w, h, fs of the sticky note, by the length of its text
sticky_size(text_len) ==
    IF text_len <= 30 THEN <<160, 100, 16>>
    ELSE IF text_len <= 80 THEN <<200, 140, 15>>
    ELSE IF text_len <= 150 THEN <<220, 180, 14>>
    ELSE <<250, 220, 13>>

\* try_deterministic_route; uuid4 stands for uuid.uuid4().hex[:8]
try_deterministic_route(command, board_state, board_id, trace_id, uuid4) ==
    LET stripped == Strip(command)
        m_sel == ReMatch(SELECTED_OBJ_RE, stripped)
        selected_id == IF m_sel.matched THEN GroupOrEmpty(m_sel, "obj_id") ELSE <<>>
        selected_type == IF m_sel.matched THEN GroupOrEmpty(m_sel, "obj_type") ELSE <<>>
        cmd == IF m_sel.matched THEN Strip(GroupOrEmpty(m_sel, "rest")) ELSE stripped
        m == ReMatch(STICKY_RE, cmd)
        text == StripChars(Strip(GroupOrEmpty(m, "text")), {"'", "\""})
        sticky_kw == Lower(GroupOrEmpty(m, "color"))
        sticky_hex == color_map_get(sticky_kw)
        pos == find_open_position(board_state, 200, 140, 40, "right")
        text_len == Len(text)
        size == sticky_size(text_len)
        preview == Slice(text, 1, Min(Len(text), 40) + 1)
                       \o (IF Len(text) > 40 THEN <<".", ".", ".">> ELSE <<>>)
        m_rc == ReMatch(RECOLOR_RE, cmd)
        recolor_kw == Lower(GroupOrEmpty(m_rc, "color"))
        recolor_hex == color_map_get(recolor_kw)
    IN  IF ReMatch(FIT_VIEW_RE, cmd).matched
        THEN [message |-> [fmt |-> "Zooming to fit everything on screen.", arg |-> <<>>],
              actions |-> <<>>,
              actions_performed |-> <<"fit_view">>,
              trace_id |-> trace_id,
              fit_to_view |-> TRUE]
        ELSE IF m.matched /\ text # <<>>
        THEN [message |-> [fmt |-> "Done! Created a sticky note: \"{preview}\"", arg |-> preview],
              actions |-> << [action |-> "create",
                              object_type |-> S_sticky,
                              temp_id |-> [prefix |-> "sticky-", hex |-> uuid4],
                              props |-> [text |-> text, x |-> int(pos[1]), y |-> int(pos[2]),
                                         width |-> size[1], height |-> size[2],
                                         color |-> sticky_hex,
                                         font_size |-> size[3], rotation |-> 0]] >>,
              actions_performed |-> <<"create_sticky_note: sticky">>,
              trace_id |-> trace_id,
              fit_to_view |-> FALSE]
        ELSE IF selected_id # <<>> /\ ReMatch(DELETE_RE, cmd).matched
        THEN [message |-> [fmt |-> "Done! Deleted the object.", arg |-> <<>>],
              actions |-> << [action |-> "delete",
                              object_type |-> selected_type_or_sticky(selected_type),
                              object_id |-> selected_id,
                              props |-> <<>>] >>,
              actions_performed |-> <<"delete_object">>,
              trace_id |-> trace_id,
              fit_to_view |-> FALSE]
        ELSE IF selected_id # <<>> /\ m_rc.matched
        THEN [message |-> [fmt |-> "Done! Changed the color to {color_kw}.", arg |-> recolor_kw],
              actions |-> << [action |-> "update",
                              object_type |-> selected_type_or_sticky(selected_type),
                              object_id |-> selected_id,
                              props |-> [color |-> recolor_hex, fill |-> recolor_hex]] >>,
              actions_performed |-> <<"update_object">>,
              trace_id |-> trace_id,
              fit_to_view |-> FALSE]
        ELSE PyNone

(***************************************************************************)
(* agent.py: keyword classifiers                                           *)
(***************************************************************************)
\* w in s, for strings
Contains(s, w) ==
    \E i \in 1..(Len(s) - Len(w) + 1) : \A k \in 1..Len(w) : s[i + k - 1] = w[k]

\* len(s.split()): the number of maximal runs of non-whitespace characters
SplitCount(s) ==
    Cardinality({i \in 1..Len(s) :
        s[i] \notin WhiteSpace /\ (i = 1 \/ s[i - 1] \in WhiteSpace)})

\* the ordered keyword lists of _classify_tool_set
TOOL_SET_KEYWORDS ==
    << [key |-> "document",
        words |-> << <<"a", "n", "a", "l", "y", "z", "e">>,   \* analyze
                   <<"s", "u", "m", "m", "a", "r", "i", "z", "e">>,   \* summarize
                   <<"d", "o", "c", "u", "m", "e", "n", "t">>,   \* document
                   <<"p", "d", "f">>,   \* pdf
                   <<"u", "p", "l", "o", "a", "d", "e", "d">>    \* uploaded
                  >>],
       [key |-> "sprint",
        words |-> << <<"s", "p", "r", "i", "n", "t">>,   \* sprint
                   <<"k", "a", "n", "b", "a", "n">>,   \* kanban
                   <<"b", "a", "c", "k", "l", "o", "g">>,   \* backlog
                   <<"s", "c", "r", "u", "m">>    \* scrum
                  >>],
       [key |-> "chart",
        words |-> << <<"c", "h", "a", "r", "t">>,   \* chart
                   <<"d", "a", "s", "h", "b", "o", "a", "r", "d">>,   \* dashboard
                   <<"b", "a", "r", " ", "c", "h", "a", "r", "t">>,   \* bar chart
                   <<"p", "i", "e", " ", "c", "h", "a", "r", "t">>,   \* pie chart
                   <<"l", "i", "n", "e", " ", "c", "h", "a", "r", "t">>    \* line chart
                  >>],
       [key |-> "diagram",
        words |-> << <<"s", "e", "q", "u", "e", "n", "c", "e", " ", "d", "i", "a", "g", "r", "a", "m">>,   \* sequence diagram
                   <<"s", "y", "s", "t", "e", "m", " ", "d", "i", "a", "g", "r", "a", "m">>,   \* system diagram
                   <<"a", "r", "c", "h", "i", "t", "e", "c", "t", "u", "r", "e">>,   \* architecture
                   <<"g", "a", "n", "t", "t">>,   \* gantt
                   <<"f", "l", "o", "w", " ", "d", "i", "a", "g", "r", "a", "m">>,   \* flow diagram
                   <<"w", "o", "r", "k", "f", "l", "o", "w">>,   \* workflow
                   <<"t", "e", "a", "m", " ", "g", "r", "a", "p", "h">>,   \* team graph
                   <<"r", "o", "a", "d", "m", "a", "p">>,   \* roadmap
                   <<"t", "i", "m", "e", "l", "i", "n", "e">>,   \* timeline
                   <<"p", "r", "o", "c", "e", "s", "s", " ", "f", "l", "o", "w">>    \* process flow
                  >>],
       [key |-> "board_only",
        words |-> << <<"s", "t", "i", "c", "k", "y">>,   \* sticky
                   <<"n", "o", "t", "e">>,   \* note
                   <<"s", "h", "a", "p", "e">>,   \* shape
                   <<"f", "r", "a", "m", "e">>,   \* frame
                   <<"c", "o", "n", "n", "e", "c", "t", "o", "r">>,   \* connector
                   <<"a", "r", "r", "o", "w">>,   \* arrow
                   <<"m", "o", "v", "e">>,   \* move
                   <<"d", "e", "l", "e", "t", "e">>,   \* delete
                   <<"r", "e", "m", "o", "v", "e">>,   \* remove
                   <<"u", "p", "d", "a", "t", "e">>,   \* update
                   <<"c", "h", "a", "n", "g", "e">>,   \* change
                   <<"e", "d", "i", "t">>,   \* edit
                   <<"c", "o", "l", "o", "r">>,   \* color
                   <<"p", "o", "s", "i", "t", "i", "o", "n">>,   \* position
                   <<"r", "e", "s", "i", "z", "e">>    \* resize
                  >>] >>

\* the key of the last row of rows with a keyword occurring in cmd, or fallback
LastKeywordRow(rows, cmd, fallback) ==
    LET hits == {r \in 1..Len(rows) :
                    \E k \in 1..Len(rows[r].words) : Contains(cmd, rows[r].words[k])}
    IN  IF hits = {} THEN fallback
        ELSE rows[CHOOSE r \in hits : \A q \in hits : r >= q].key

\* the key of the first row of rows with a keyword occurring in cmd, or fallback
FirstKeywordRow(rows, cmd, fallback) ==
    LET hits == {r \in 1..Len(rows) :
                    \E k \in 1..Len(rows[r].words) : Contains(cmd, rows[r].words[k])}
    IN  IF hits = {} THEN fallback
        ELSE rows[CHOOSE r \in hits : \A q \in hits : r <= q].key

classify_tool_set(command) == FirstKeywordRow(TOOL_SET_KEYWORDS, Lower(command), "all")

\* the ordered keyword lists of _classify_operation
OPERATION_KEYWORDS ==
    << [key |-> "sprint_board",
        words |-> << <<"s", "p", "r", "i", "n", "t">>,   \* sprint
                   <<"k", "a", "n", "b", "a", "n">>,   \* kanban
                   <<"b", "a", "c", "k", "l", "o", "g">>    \* backlog
                  >>],
       [key |-> "chart_generation",
        words |-> << <<"c", "h", "a", "r", "t">>,   \* chart
                   <<"g", "r", "a", "p", "h">>,   \* graph
                   <<"d", "a", "s", "h", "b", "o", "a", "r", "d">>,   \* dashboard
                   <<"m", "e", "t", "r", "i", "c">>    \* metric
                  >>],
       [key |-> "plan_generation",
        words |-> << <<"p", "l", "a", "n">>,   \* plan
                   <<"s", "t", "e", "p", "s">>,   \* steps
                   <<"r", "o", "a", "d", "m", "a", "p">>    \* roadmap
                  >>],
       [key |-> "workflow_generation",
        words |-> << <<"w", "o", "r", "k", "f", "l", "o", "w">>,   \* workflow
                   <<"p", "r", "o", "c", "e", "s", "s">>,   \* process
                   <<"f", "l", "o", "w">>    \* flow
                  >>],
       [key |-> "sequence_diagram",
        words |-> << <<"s", "e", "q", "u", "e", "n", "c", "e">>,   \* sequence
                   <<"s", "e", "q", " ", "d", "i", "a", "g", "r", "a", "m">>    \* seq diagram
                  >>],
       [key |-> "system_diagram",
        words |-> << <<"a", "r", "c", "h", "i", "t", "e", "c", "t", "u", "r", "e">>,   \* architecture
                   <<"s", "y", "s", "t", "e", "m", " ", "d", "i", "a", "g", "r", "a", "m">>,   \* system diagram
                   <<"c", "o", "m", "p", "o", "n", "e", "n", "t">>    \* component
                  >>],
       [key |-> "project_tracking",
        words |-> << <<"t", "r", "a", "c", "k", "e", "r">>,   \* tracker
                   <<"c", "o", "m", "p", "l", "e", "t", "i", "o", "n">>,   \* completion
                   <<"p", "r", "o", "g", "r", "e", "s", "s">>    \* progress
                  >>],
       [key |-> "document_analysis",
        words |-> << <<"a", "n", "a", "l", "y", "z", "e">>,   \* analyze
                   <<"s", "u", "m", "m", "a", "r", "i", "z", "e">>,   \* summarize
                   <<"s", "u", "m", "m", "a", "r", "y">>,   \* summary
                   <<"t", "i", "m", "e", "l", "i", "n", "e">>,   \* timeline
                   <<"s", "t", "a", "t", "i", "s", "t", "i", "c", "s">>    \* statistics
                  >>],
       [key |-> "document_search",
        words |-> << <<"d", "o", "c", "u", "m", "e", "n", "t">>,   \* document
                   <<"p", "d", "f">>,   \* pdf
                   <<"s", "e", "a", "r", "c", "h">>,   \* search
                   <<"f", "i", "n", "d", " ", "i", "n">>    \* find in
                  >>] >>

classify_operation(command) ==
    FirstKeywordRow(OPERATION_KEYWORDS, Lower(command), "board_manipulation")

(***************************************************************************)
(* The inputs the layout service is called with                            *)
(***************************************************************************)
ObjSticky  == [id |-> <<"s", "1">>, type |-> "sticky", x |-> 0, y |-> 0, width |-> 200, height |-> 200]
ObjWide    == [id |-> <<"r", "1">>, type |-> "rect", x |-> 300, y |-> 100, width |-> 400, height |-> 100]
ObjConn    == [id |-> <<"c", "1">>, type |-> "connector", x |-> 0, y |-> 0, width |-> 0, height |-> 0]
ObjCanvas  == [id |-> <<"f", "1">>, type |-> "frame", x |-> 0, y |-> 0, width |-> 4000, height |-> 3000]
ObjCorner  == [id |-> <<"t", "1">>, type |-> "text", x |-> 3900, y |-> 2900]
ObjOutside == [id |-> <<"i", "1">>, type |-> "image", x |-> -150, y |-> -50, width |-> 100, height |-> 300]

ObjPool == {ObjSticky, ObjWide, ObjConn, ObjCanvas, ObjCorner, ObjOutside}

\* objects as a client can send them: a geometry key holding null or a string,
\* a connector with such a key, and an object with no type and no geometry
ObjNullX       == [id |-> <<"n", "1">>, type |-> "sticky", y |-> 0, width |-> 200, height |-> 200,
                   non_numeric |-> [x |-> "null"]]
ObjStringWidth == [id |-> <<"w", "1">>, type |-> "rect", x |-> 600, y |-> 0, height |-> 100,
                   non_numeric |-> [width |-> "string"]]
ObjNullHeight  == [id |-> <<"h", "1">>, type |-> "frame", x |-> 0, y |-> 400, width |-> 100,
                   non_numeric |-> [height |-> "null"]]
ObjConnNull    == [id |-> <<"c", "2">>, type |-> "connector", y |-> 0,
                   non_numeric |-> [x |-> "null"]]
ObjBare        == [id |-> <<"b", "1">>]

AnyPool == {ObjSticky, ObjNullX, ObjStringWidth, ObjNullHeight, ObjConnNull, ObjBare}

\* the boxes and paddings BBox.overlaps is called with
BoxXs == {0, 110, 220}
BoxYs == {0, 120}
BoxWidths == {0, 100, 200}
BoxHeights == {100}
OverlapPaddings == {-20, 0, 20}
Boxes == {BBox(x, y, w, h) : x \in BoxXs, y \in BoxYs, w \in BoxWidths, h \in BoxHeights}

OpenWidths   == {200, 3950, 4100}
OpenHeights  == {140, 2950, 3100}
OpenPaddings == {0, 40}
Prefers      == {"right", "below", "auto"}

InsertTargetXs == {-50, 0, 210, 3950}
InsertTargetYs == {0, 2950}
InsertWidths   == {100, 200}
InsertHeights  == {100}
InsertPaddings == {20}

(***************************************************************************)
(* The commands the router is called with: a prefix followed by a body    *)
(***************************************************************************)
CommandPrefix ==
    [k \in {"none",
            "plain",
            "with_text",
            "ghost",
            "odd_type",
            "no_type",
            "lowercase",
            "unclosed",
            "not_first",
            "empty_id"} |->
        CASE k = "none" ->
                <<>>
          [] k = "plain" ->
                <<"[", "S", "e", "l", "e", "c", "t", "e", "d", " ", "o", "b", "j",
                  "e", "c", "t", ":", " ", "i", "d", "=", "s", "1", ",", " ", "t",
                  "y", "p", "e", "=", "s", "t", "i", "c", "k", "y", "]", " ">>
          [] k = "with_text" ->
                <<"[", "S", "e", "l", "e", "c", "t", "e", "d", " ", "o", "b", "j",
                  "e", "c", "t", ":", " ", "i", "d", "=", "r", "1", ",", " ", "t",
                  "y", "p", "e", "=", "r", "e", "c", "t", ",", " ", "t", "e", "x",
                  "t", "=", "\"", "p", "l", "a", "n", "\"", "]", " ">>
          [] k = "ghost" ->
                <<"[", "S", "e", "l", "e", "c", "t", "e", "d", " ", "o", "b", "j",
                  "e", "c", "t", ":", " ", "i", "d", "=", "z", "z", "9", ",", " ",
                  "t", "y", "p", "e", "=", "s", "t", "i", "c", "k", "y", "]", " ">>
          [] k = "odd_type" ->
                <<"[", "S", "e", "l", "e", "c", "t", "e", "d", " ", "o", "b", "j",
                  "e", "c", "t", ":", " ", "i", "d", "=", "s", "1", ",", "t", "y",
                  "p", "e", "=", "w", "i", "d", "g", "e", "t", "]">>
          [] k = "no_type" ->
                <<"[", "S", "e", "l", "e", "c", "t", "e", "d", " ", "o", "b", "j",
                  "e", "c", "t", ":", " ", "i", "d", "=", "s", "1", "]", " ">>
          [] k = "lowercase" ->
                <<"[", "s", "e", "l", "e", "c", "t", "e", "d", " ", "o", "b", "j",
                  "e", "c", "t", ":", " ", "i", "d", "=", "s", "1", ",", " ", "t",
                  "y", "p", "e", "=", "s", "t", "i", "c", "k", "y", "]", " ">>
          [] k = "unclosed" ->
                <<"[", "S", "e", "l", "e", "c", "t", "e", "d", " ", "o", "b", "j",
                  "e", "c", "t", ":", " ", "i", "d", "=", "s", "1", ",", " ", "t",
                  "y", "p", "e", "=", "s", "t", "i", "c", "k", "y", " ">>
          [] k = "not_first" ->
                <<"x", " ", "[", "S", "e", "l", "e", "c", "t", "e", "d", " ", "o",
                  "b", "j", "e", "c", "t", ":", " ", "i", "d", "=", "s", "1", ",",
                  " ", "t", "y", "p", "e", "=", "s", "t", "i", "c", "k", "y", "]", " ">>
          [] k = "empty_id" ->
                <<"[", "S", "e", "l", "e", "c", "t", "e", "d", " ", "o", "b", "j",
                  "e", "c", "t", ":", " ", "i", "d", "=", ",", " ", "t", "y", "p",
                  "e", "=", "s", "t", "i", "c", "k", "y", "]", " ">> ]

\* the prefixes that are a complete "[Selected object: id=..., type=...]" marker
WellFormedPrefixes == {"plain", "with_text", "ghost", "odd_type"}

CommandBody ==
    [k \in {"delete_this",
            "remove_the",
            "delete_two_words",
            "please_delete",
            "delete_now",
            "make_blue",
            "change_red",
            "set_green",
            "make_mauve",
            "blue_please",
            "fit_view",
            "zoom",
            "fit_please",
            "create_blue",
            "add_note",
            "put_bare",
            "purple_bare",
            "quoted",
            "empty_quotes",
            "saying_only",
            "two_lines",
            "three_lines",
            "break_before_text",
            "hello"} |->
        CASE k = "delete_this" ->
                <<"d", "e", "l", "e", "t", "e", " ", "t", "h", "i", "s">>
          [] k = "remove_the" ->
                <<"R", "e", "m", "o", "v", "e", " ", "t", "h", "e", " ", " ", "n",
                  "o", "t", "e", " ">>
          [] k = "delete_two_words" ->
                <<"d", "e", "l", "e", "t", "e", " ", "t", "h", "a", "t", " ", "t",
                  "h", "i", "n", "g">>
          [] k = "please_delete" ->
                <<"p", "l", "e", "a", "s", "e", " ", "d", "e", "l", "e", "t", "e",
                  " ", "t", "h", "i", "s">>
          [] k = "delete_now" ->
                <<"d", "e", "l", "e", "t", "e", " ", "t", "h", "i", "s", " ", "n",
                  "o", "w">>
          [] k = "make_blue" ->
                <<"m", "a", "k", "e", " ", "i", "t", " ", "b", "l", "u", "e">>
          [] k = "change_red" ->
                <<"c", "h", "a", "n", "g", "e", " ", "t", "o", " ", "r", "e", "d">>
          [] k = "set_green" ->
                <<"s", "e", "t", " ", "i", "t", " ", "c", "o", "l", "o", "r", " ",
                  "t", "o", " ", "G", "R", "E", "E", "N">>
          [] k = "make_mauve" ->
                <<"m", "a", "k", "e", " ", "t", "h", "i", "s", " ", "m", "a", "u",
                  "v", "e">>
          [] k = "blue_please" ->
                <<"m", "a", "k", "e", " ", "i", "t", " ", "b", "l", "u", "e", " ",
                  "p", "l", "e", "a", "s", "e">>
          [] k = "fit_view" ->
                <<"f", "i", "t", " ", "v", "i", "e", "w">>
          [] k = "zoom" ->
                <<"Z", "o", "o", "m", " ", "T", "o", " ", "F", "i", "t">>
          [] k = "fit_please" ->
                <<"f", "i", "t", " ", "v", "i", "e", "w", " ", "p", "l", "e", "a",
                  "s", "e">>
          [] k = "create_blue" ->
                <<"c", "r", "e", "a", "t", "e", " ", "a", " ", "b", "l", "u", "e",
                  " ", "s", "t", "i", "c", "k", "y", " ", "s", "a", "y", "i", "n",
                  "g", " ", "H", "e", "l", "l", "o", " ", "W", "o", "r", "l", "d">>
          [] k = "add_note" ->
                <<"a", "d", "d", " ", "s", "t", "i", "c", "k", "y", " ", "n", "o",
                  "t", "e", ":", " ", "t", "o", "d", "o">>
          [] k = "put_bare" ->
                <<"p", "u", "t", " ", "a", " ", "s", "t", "i", "c", "k", "y">>
          [] k = "purple_bare" ->
                <<"c", "r", "e", "a", "t", "e", " ", "a", " ", "p", "u", "r", "p",
                  "l", "e", " ", "s", "t", "i", "c", "k", "y">>
          [] k = "quoted" ->
                <<"m", "a", "k", "e", " ", "s", "t", "i", "c", "k", "y", " ", "'",
                  "q", "u", "o", "t", "e", "d", "'">>
          [] k = "empty_quotes" ->
                <<"c", "r", "e", "a", "t", "e", " ", "a", " ", "s", "t", "i", "c",
                  "k", "y", " ", "\"", "\"">>
          [] k = "saying_only" ->
                <<"c", "r", "e", "a", "t", "e", " ", "s", "t", "i", "c", "k", "y",
                  " ", "s", "a", "y", "i", "n", "g">>
          [] k = "two_lines" ->
                <<"c", "r", "e", "a", "t", "e", " ", "a", " ", "s", "t", "i", "c",
                  "k", "y", " ", "s", "a", "y", "i", "n", "g", " ", "l", "i", "n",
                  "e", "1", "\n", "l", "i", "n", "e", "2">>
          [] k = "three_lines" ->
                <<"a", "d", "d", " ", "a", " ", "r", "e", "d", " ", "s", "t", "i",
                  "c", "k", "y", " ", "n", "o", "t", "e", ":", " ", "a", "\n", "b",
                  "\n", "c">>
          [] k = "break_before_text" ->
                <<"a", "d", "d", " ", "s", "t", "i", "c", "k", "y", " ", "n", "o",
                  "t", "e", "\n", "h", "e", "l", "l", "o">>
          [] k = "hello" ->
                <<"h", "e", "l", "l", "o", " ", "t", "h", "e", "r", "e">> ]

\* further command bodies: colours in every spelling, the delete and fit-view
\* phrases, and commands that carry keywords of several tool sets
ExtraBody ==
    [k \in {"create_mauve",
            "create_dotless",
            "create_dotted",
            "recolor_dotless",
            "recolor_dotted",
            "create_yellow",
            "create_green",
            "create_red",
            "create_purple",
            "create_orange",
            "create_pink",
            "create_white",
            "recolor_yellow",
            "recolor_purple",
            "recolor_orange",
            "recolor_pink",
            "recolor_white",
            "delete_it",
            "remove_that",
            "delete_the_frame",
            "fit_screen",
            "fit_everything",
            "show_all",
            "see_everything",
            "fit_padded",
            "cls_doc_sprint",
            "cls_sprint_chart",
            "cls_chart_diagram",
            "cls_diagram_board",
            "cls_notebook",
            "cls_upper_pdf",
            "fit_dotted",
            "please_fit",
            "please_recolor",
            "fit_newline_more",
            "delete_newline_more",
            "create_then_delete"} |->
        CASE k = "create_mauve" ->
                <<"c", "r", "e", "a", "t", "e", " ", "a", " ", "m", "a", "u", "v", "e",
                  " ", "s", "t", "i", "c", "k", "y", " ", "s", "a", "y", "i", "n", "g",
                  " ", "h", "i">>
          [] k = "create_dotless" ->
                <<"c", "r", "e", "a", "t", "e", " ", "a", " ", "p", DotlessSmallI, "n",
                  "k", " ", "s", "t", "i", "c", "k", "y", " ", "s", "a", "y", "i", "n",
                  "g", " ", "h", "i">>
          [] k = "create_dotted" ->
                <<"a", "d", "d", " ", "a", " ", "W", "H", DottedCapitalI, "T", "E",
                  " ", "s", "t", "i", "c", "k", "y", " ", "n", "o", "t", "e", ":", " ",
                  "h", "i">>
          [] k = "recolor_dotless" ->
                <<"m", "a", "k", "e", " ", "i", "t", " ", "p", DotlessSmallI, "n", "k">>
          [] k = "recolor_dotted" ->
                <<"c", "h", "a", "n", "g", "e", " ", "i", "t", " ", "t", "o", " ", "W",
                  "H", DottedCapitalI, "T", "E">>
          [] k = "create_yellow" ->
                <<"m", "a", "k", "e", " ", "a", " ", "Y", "e", "l", "l", "o", "w", " ",
                  "s", "t", "i", "c", "k", "y", " ", "t", "i", "t", "l", "e", "d", " ",
                  "p", "l", "a", "n">>
          [] k = "create_green" ->
                <<"p", "u", "t", " ", "a", " ", "G", "R", "E", "E", "N", " ", "s", "t",
                  "i", "c", "k", "y", " ", "t", "h", "a", "t", " ", "s", "a", "y", "s",
                  " ", "g", "o">>
          [] k = "create_red" ->
                <<"a", "d", "d", " ", "r", "e", "d", " ", "s", "t", "i", "c", "k", "y",
                  " ", "w", "i", "t", "h", " ", "t", "e", "x", "t", " ", "s", "t", "o",
                  "p">>
          [] k = "create_purple" ->
                <<"c", "r", "e", "a", "t", "e", " ", "a", " ", "p", "u", "r", "p", "l",
                  "e", " ", "s", "t", "i", "c", "k", "y", " ", "i", "d", "e", "a">>
          [] k = "create_orange" ->
                <<"c", "r", "e", "a", "t", "e", " ", "a", " ", "o", "r", "a", "n", "g",
                  "e", " ", "s", "t", "i", "c", "k", "y", " ", "n", "o", "t", "e", " ",
                  "s", "a", "y", "i", "n", "g", " ", "j", "u", "i", "c", "e">>
          [] k = "create_pink" ->
                <<"C", "r", "e", "a", "t", "e", " ", "A", " ", "P", "i", "n", "k", " ",
                  "S", "t", "i", "c", "k", "y", " ", "N", "o", "t", "e", ":", " ", "r",
                  "o", "s", "e">>
          [] k = "create_white" ->
                <<"A", "D", "D", " ", "A", " ", "W", "H", "I", "T", "E", " ", "S", "T",
                  "I", "C", "K", "Y", " ", "S", "A", "Y", "I", "N", "G", " ", "S", "N",
                  "O", "W">>
          [] k = "recolor_yellow" ->
                <<"m", "a", "k", "e", " ", "t", "h", "i", "s", " ", "Y", "E", "L", "L",
                  "O", "W">>
          [] k = "recolor_purple" ->
                <<"c", "h", "a", "n", "g", "e", " ", "i", "t", " ", "i", "n", "t", "o",
                  " ", "p", "u", "r", "p", "l", "e">>
          [] k = "recolor_orange" ->
                <<"s", "e", "t", " ", "c", "o", "l", "o", "r", " ", "t", "o", " ", "O",
                  "r", "a", "n", "g", "e">>
          [] k = "recolor_pink" ->
                <<"s", "e", "t", " ", "i", "t", " ", "t", "o", " ", "p", "i", "n", "k">>
          [] k = "recolor_white" ->
                <<"c", "h", "a", "n", "g", "e", " ", "t", "o", " ", "w", "h", "i", "t",
                  "e", " ">>
          [] k = "delete_it" ->
                <<"d", "e", "l", "e", "t", "e", " ", "i", "t">>
          [] k = "remove_that" ->
                <<"R", "E", "M", "O", "V", "E", " ", "T", "H", "A", "T">>
          [] k = "delete_the_frame" ->
                <<"D", "e", "l", "e", "t", "e", " ", "t", "h", "e", " ", "f", "r", "a",
                  "m", "e", "_", "2">>
          [] k = "fit_screen" ->
                <<"F", "i", "t", " ", "T", "o", " ", "S", "c", "r", "e", "e", "n">>
          [] k = "fit_everything" ->
                <<"f", "i", "t", " ", "e", "v", "e", "r", "y", "t", "h", "i", "n", "g">>
          [] k = "show_all" ->
                <<"s", "h", "o", "w", " ", "a", "l", "l">>
          [] k = "see_everything" ->
                <<"S", "E", "E", " ", " ", "E", "V", "E", "R", "Y", "T", "H", "I", "N",
                  "G">>
          [] k = "fit_padded" ->
                <<" ", " ", "f", "i", "t", " ", "v", "i", "e", "w", " ", "\n">>
          [] k = "cls_doc_sprint" ->
                <<"s", "u", "m", "m", "a", "r", "i", "z", "e", " ", "t", "h", "e", " ",
                  "s", "p", "r", "i", "n", "t", " ", "b", "a", "c", "k", "l", "o", "g",
                  " ", "a", "s", " ", "a", " ", "c", "h", "a", "r", "t">>
          [] k = "cls_sprint_chart" ->
                <<"k", "a", "n", "b", "a", "n", " ", "w", "i", "t", "h", " ", "a", " ",
                  "p", "i", "e", " ", "c", "h", "a", "r", "t", " ", "a", "n", "d", " ",
                  "s", "t", "i", "c", "k", "y", " ", "n", "o", "t", "e", "s">>
          [] k = "cls_chart_diagram" ->
                <<"D", "a", "s", "h", "b", "o", "a", "r", "d", " ", "f", "o", "r", " ",
                  "t", "h", "e", " ", "r", "o", "a", "d", "m", "a", "p">>
          [] k = "cls_diagram_board" ->
                <<"a", "r", "c", "h", "i", "t", "e", "c", "t", "u", "r", "e", " ", "w",
                  "o", "r", "k", "f", "l", "o", "w", ",", " ", "t", "h", "e", "n", " ",
                  "d", "e", "l", "e", "t", "e", " ", "t", "h", "e", " ", "a", "r", "r",
                  "o", "w">>
          [] k = "cls_notebook" ->
                <<"N", "O", "T", "E", "B", "O", "O", "K">>
          [] k = "cls_upper_pdf" ->
                <<"R", "e", "a", "d", " ", "T", "h", "e", " ", "P", "D", "F">>
          [] k = "fit_dotted" ->
                <<"f", DottedCapitalI, "t", " ", "v", "i", "e", "w">>
          [] k = "please_fit" ->
                <<"p", "l", "e", "a", "s", "e", " ", "f", "i", "t", " ", "v", "i", "e",
                  "w">>
          [] k = "please_recolor" ->
                <<"p", "l", "e", "a", "s", "e", " ", "m", "a", "k", "e", " ", "i", "t",
                  " ", "b", "l", "u", "e">>
          [] k = "fit_newline_more" ->
                <<"f", "i", "t", " ", "v", "i", "e", "w", "\n", "n", "o", "w">>
          [] k = "delete_newline_more" ->
                <<"d", "e", "l", "e", "t", "e", " ", "t", "h", "i", "s", "\n", "n",
                  "o", "w">>
          [] k = "create_then_delete" ->
                <<"c", "r", "e", "a", "t", "e", " ", "a", " ", "s", "t", "i", "c", "k",
                  "y", " ", "s", "a", "y", "i", "n", "g", " ", "d", "e", "l", "e", "t",
                  "e", " ", "t", "h", "i", "s">> ]

\* create commands whose text has exactly the length at and just past each tier limit
TierTextLength ==
    [k \in {"len_1", "len_30", "len_31", "len_80", "len_81", "len_150", "len_151"} |->
        CASE k = "len_1" -> 1
          [] k = "len_30" -> 30
          [] k = "len_31" -> 31
          [] k = "len_80" -> 80
          [] k = "len_81" -> 81
          [] k = "len_150" -> 150
          [] k = "len_151" -> 151 ]

\* a text of n characters without spaces or quotes
Filler(n) == [i \in 1..n |-> LowerCase[((i - 1) % Len(LowerCase)) + 1]]

TierBody ==
    [k \in DOMAIN TierTextLength |->
        S_add \o <<" ">> \o S_sticky \o <<" ">> \o Filler(TierTextLength[k])]

CoreBodies == DOMAIN CommandBody
ExtraBodies == DOMAIN ExtraBody \cup DOMAIN TierBody

\* the text of a body
BodyText(b) ==
    IF b \in DOMAIN CommandBody THEN CommandBody[b]
    ELSE IF b \in DOMAIN ExtraBody THEN ExtraBody[b]
    ELSE TierBody[b]

\* the commands the router is called with: <<prefix, body>>
RouterCommands ==
    ((DOMAIN CommandPrefix) \X CoreBodies) \cup ({"none", "plain", "odd_type"} \X ExtraBodies)

CommandText(pb) == CommandPrefix[pb[1]] \o BodyText(pb[2])

\* the bodies whose sticky text spans several lines
MultiLineBodies == {"two_lines", "three_lines"}

Uuids == {"0a1b2c3d", "4e5f6a7b"}

(***************************************************************************)
(* cost_tracker.py and the rest of agent.py                                *)
(***************************************************************************)
\* MODEL_PRICING, in units of 1e-8 USD per token
MODEL_PRICING ==
    [m \in {"llama-3.3-70b-versatile", "llama-3.1-8b-instant", "mixtral-8x7b-32768",
            "gpt-4o-mini", "gpt-4o", "claude-haiku-4-5-20251001",
            "claude-sonnet-4-5-20250929", "deterministic"} |->
        CASE m = "llama-3.3-70b-versatile" -> [input |-> 59, output |-> 79]
          [] m = "llama-3.1-8b-instant" -> [input |-> 5, output |-> 8]
          [] m = "mixtral-8x7b-32768" -> [input |-> 24, output |-> 24]
          [] m = "gpt-4o-mini" -> [input |-> 15, output |-> 60]
          [] m = "gpt-4o" -> [input |-> 250, output |-> 1000]
          [] m = "claude-haiku-4-5-20251001" -> [input |-> 80, output |-> 400]
          [] m = "claude-sonnet-4-5-20250929" -> [input |-> 300, output |-> 1500]
          [] m = "deterministic" -> [input |-> 0, output |-> 0]]

\* deque(maxlen=10000)
RECORDS_MAXLEN == 10000

\* CostTracker.record: the records after the call (the timestamp is left out)
record(recs, model, input_tokens, output_tokens, trace, operation) ==
    LET pricing == IF model \in DOMAIN MODEL_PRICING THEN MODEL_PRICING[model]
                   ELSE [input |-> 0, output |-> 0]
        cost == input_tokens * pricing.input + output_tokens * pricing.output
        rec == [model |-> model, input_tokens |-> input_tokens,
                output_tokens |-> output_tokens, cost_usd |-> cost,
                trace_id |-> trace, operation |-> operation]
    IN  IF Len(recs) >= RECORDS_MAXLEN THEN Append(Tail(recs), rec) ELSE Append(recs, rec)

\* app.agent.models.get_model_spec for the model ids the service is asked for
get_model_spec(model_id) ==
    CASE model_id = "gpt-4o-mini" -> [provider |-> "openai", api_model_name |-> "gpt-4o-mini"]
      [] model_id = "claude-haiku" ->
            [provider |-> "anthropic", api_model_name |-> "claude-haiku-4-5-20251001"]

\* _create_llm raises ValueError when the provider's API key is not configured
create_llm_raises(spec, keys) == spec.provider \notin keys

MAX_AGENT_CACHE_SIZE == 20

\* cache_key in _agent_cache
CacheHas(cache, key) == \E i \in 1..Len(cache) : cache[i].key = key
\* _agent_cache[cache_key]
CacheGet(cache, key) == cache[CHOOSE i \in 1..Len(cache) : cache[i].key = key].agent

\* the insertion without the eviction of lines 316-318
cache_insert_without_eviction(cache, key, new_agent) ==
    IF CacheHas(cache, key)
    THEN [i \in 1..Len(cache) |->
            IF cache[i].key = key THEN [key |-> key, agent |-> new_agent] ELSE cache[i]]
    ELSE Append(cache, [key |-> key, agent |-> new_agent])

\* the insertion evicting the key inserted last instead of the one inserted first
cache_insert_evicts_newest(cache, key, new_agent) ==
    LET kept == IF Len(cache) >= MAX_AGENT_CACHE_SIZE
                THEN SubSeq(cache, 1, Len(cache) - 1) ELSE cache
    IN  IF CacheHas(kept, key)
        THEN [i \in 1..Len(kept) |->
                IF kept[i].key = key THEN [key |-> key, agent |-> new_agent] ELSE kept[i]]
        ELSE Append(kept, [key |-> key, agent |-> new_agent])

\* the second critical section of get_agent: evict the oldest key of a full cache,
\* then _agent_cache[cache_key] = new_agent (a dict keeps a present key in its place)
cache_insert(cache, key, new_agent) ==
    LET kept == IF Len(cache) >= MAX_AGENT_CACHE_SIZE THEN Tail(cache) ELSE cache
    IN  IF CacheHas(kept, key)
        THEN [i \in 1..Len(kept) |->
                IF kept[i].key = key THEN [key |-> key, agent |-> new_agent] ELSE kept[i]]
        ELSE Append(kept, [key |-> key, agent |-> new_agent])

(***************************************************************************)
(* The BoardAction schema of the response                                  *)
(***************************************************************************)
\* action: Literal["create", "update", "delete"]
BoardActionActions == {"create", "update", "delete"}

\* object_type: Literal["sticky", "rect", "circle", "text", "frame", "connector", "image"]
BoardActionObjectTypes ==
    { <<"s", "t", "i", "c", "k", "y">>,
      <<"r", "e", "c", "t">>,
      <<"c", "i", "r", "c", "l", "e">>,
      <<"t", "e", "x", "t">>,
      <<"f", "r", "a", "m", "e">>,
      <<"c", "o", "n", "n", "e", "c", "t", "o", "r">>,
      <<"i", "m", "a", "g", "e">> }

\* AgentCommandResponse(actions=...) validates every action against BoardAction;
\* props is a dict in every action the router builds
BoardAction_accepts(a) ==
    /\ a.action \in BoardActionActions
    /\ a.object_type \in BoardActionObjectTypes

(***************************************************************************)
(* The inputs the service is called with                                   *)
(***************************************************************************)
\* the worker threads asyncio.to_thread runs run_agent on
Threads == {"worker-1", "worker-2"}

ModelIds == {"gpt-4o-mini", "claude-haiku"}

RouterPool == {ObjSticky, ObjConn, ObjCorner}

\* the board_state lists of at most n objects of pool
BoardsOver(pool, n) == UNION {[1..k -> pool] : k \in 0..n}

RequestCommands ==
    { CommandPrefix["none"] \o CommandBody["create_blue"],
      CommandPrefix["plain"] \o CommandBody["delete_this"],
      CommandPrefix["none"] \o CommandBody["hello"],
      <<" ">> }

RequestBoards == {<<>>, <<ObjSticky>>}

\* the uuid4().hex[:8] values drawn while the service runs
RequestUuids == Uuids

\* what the language model and its tool calls come back with: the board actions,
\* the reported token usage (0 when the provider reports none) and len(str(actions))
AgentOutcomes ==
    { [actions |-> <<>>, message |-> "Done", fit_to_view |-> FALSE,
       input_tokens |-> 0, output_tokens |-> 0, actions_repr_len |-> 2],
      [actions |-> << [action |-> "create", object_type |-> S_sticky,
                       temp_id |-> [prefix |-> "sticky-", hex |-> "0a1b2c3d"],
                       props |-> [text |-> S_note, x |-> 100, y |-> 100, width |-> 200,
                                  height |-> 200, color |-> "#FEF08A", font_size |-> 14,
                                  rotation |-> 0]] >>,
       message |-> "Added a note.", fit_to_view |-> FALSE,
       input_tokens |-> 120, output_tokens |-> 30, actions_repr_len |-> 180] }

NoRequest == [command |-> <<>>, board_state |-> <<>>, board_id |-> "", model |-> "",
              number |-> 0]

\* the tool_set_key strings of the keys an earlier run has left in the cache, in
\* the order they were inserted: the six tool sets and further strings
\* (TOOL_SETS.get(tool_set_key, ALL_TOOLS) accepts any string)
CachedToolSets ==
    << "all", "board_only", "chart", "diagram", "sprint", "document",
       "g", "h", "i", "j", "k", "l", "m", "n", "o", "p", "q", "r", "s", "t" >>

\* the cache after get_agent("gpt-4o-mini", CachedToolSets[i]) for i = 1..n, one
\* call after the other
FilledCache(n) ==
    [i \in 1..n |-> [key |-> <<"gpt-4o-mini", CachedToolSets[i]>>, agent |-> i]]

\* how many entries the cache holds when the concurrent calls start
CacheFills == {0, MAX_AGENT_CACHE_SIZE - 1, MAX_AGENT_CACHE_SIZE}

\* the keys get_agent is called with: the oldest key of the filled cache, two keys
\* it does not hold, and a key whose provider has no API key
GetAgentKeys ==
    { <<"gpt-4o-mini", CachedToolSets[1]>>,
      <<"gpt-4o-mini", "u">>,
      <<"gpt-4o-mini", "v">>,
      <<"claude-haiku", "all">> }

(***************************************************************************)
(* State machine                                                           *)
(***************************************************************************)
Init ==
    /\ board = <<>>
    /\ lcall = [op |-> "none"]
    /\ lresult = <<>>
    /\ rcall = [op |-> "none"]
    /\ rresult = PyNone
    /\ pc = [t \in Threads |-> "idle"]
    /\ req = [t \in Threads |-> NoRequest]
    /\ run_trace_id = [t \in Threads |-> 0]
    /\ deterministic_result = [t \in Threads |-> PyNone]
    /\ tool_set_key = [t \in Threads |-> ""]
    /\ agent = [t \in Threads |-> 0]
    /\ result = [t \in Threads |-> PyNone]
    /\ calls = [t \in Threads |-> <<>>]
    /\ tool_reads = [t \in Threads |-> <<>>]
    /\ current_board_state = <<>>
    /\ records = <<>>
    /\ agent_cache = <<>>
    /\ api_keys = {"openai"}
    /\ served = 0
    /\ agents_built = 0

(***************************************************************************)
(* The layout service on its own                                           *)
(***************************************************************************)
\* the client adds an object to the board; the next call carries the longer list
AddObject ==
    /\ lcall.op = "none"
    /\ Len(board) < MaxObjs
    /\ \E obj \in ObjPool : board' = Append(board, obj)
    /\ UNCHANGED <<lcall, lresult, routerVars, threadVars, globalVars>>

CallFindOpenPosition ==
    /\ lcall.op = "none"
    /\ \E w \in OpenWidths, h \in OpenHeights, p \in OpenPaddings, prefer \in Prefers :
        /\ lcall' = [op |-> "find_open_position", needed_width |-> w, needed_height |-> h,
                     padding |-> p, prefer |-> prefer]
        /\ lresult' = find_open_position(board, w, h, p, prefer)
    /\ UNCHANGED <<board, routerVars, threadVars, globalVars>>

CallFindInsertPosition ==
    /\ lcall.op = "none"
    /\ \E tx \in InsertTargetXs, ty \in InsertTargetYs, w \in InsertWidths,
          h \in InsertHeights, p \in InsertPaddings :
        /\ lcall' = [op |-> "find_insert_position", target_x |-> tx, target_y |-> ty,
                     item_width |-> w, item_height |-> h, padding |-> p]
        /\ lresult' = find_insert_position(board, tx, ty, w, h, p)
    /\ UNCHANGED <<board, routerVars, threadVars, globalVars>>

CallBoardBounds ==
    /\ lcall.op = "none"
    /\ lcall' = [op |-> "get_board_bounds"]
    /\ lresult' = get_board_bounds(board)
    /\ UNCHANGED <<board, routerVars, threadVars, globalVars>>

\* the caller has consumed the result
LayoutReturn ==
    /\ lcall.op # "none"
    /\ lcall' = [op |-> "none"]
    /\ lresult' = <<>>
    /\ UNCHANGED <<board, routerVars, threadVars, globalVars>>

NextLayout ==
    \/ AddObject
    \/ CallFindOpenPosition
    \/ CallFindInsertPosition
    \/ CallBoardBounds
    \/ LayoutReturn

SpecLayout == Init /\ [][NextLayout]_vars

(***************************************************************************)
(* The layout service called with whatever the client sent                 *)
(***************************************************************************)
AddAnyObject ==
    /\ lcall.op = "none"
    /\ Len(board) < MaxObjs
    /\ \E obj \in AnyPool : board' = Append(board, obj)
    /\ UNCHANGED <<lcall, lresult, routerVars, threadVars, globalVars>>

\* a call that raises leaves no result behind
LayoutOutcome(call, r) ==
    /\ lcall' = [call EXCEPT !.outcome = r.outcome]
    /\ lresult' = IF r.outcome = "returned" THEN r.value ELSE <<>>

CallGetBoardBounds ==
    /\ lcall.op = "none"
    /\ LayoutOutcome([op |-> "get_board_bounds", outcome |-> ""], call_get_board_bounds(board))
    /\ UNCHANGED <<board, routerVars, threadVars, globalVars>>

CallDescribeBoardLayout ==
    /\ lcall.op = "none"
    /\ LayoutOutcome([op |-> "describe_board_layout", outcome |-> ""],
                     call_describe_board_layout(board))
    /\ UNCHANGED <<board, routerVars, threadVars, globalVars>>

CallFindOpenPositionAny ==
    /\ lcall.op = "none"
    /\ \E w \in OpenWidths, h \in OpenHeights, p \in OpenPaddings, prefer \in Prefers :
        LayoutOutcome([op |-> "find_open_position", needed_width |-> w, needed_height |-> h,
                       padding |-> p, prefer |-> prefer, outcome |-> ""],
                      call_find_open_position(board, w, h, p, prefer))
    /\ UNCHANGED <<board, routerVars, threadVars, globalVars>>

CallFindInsertPositionAny ==
    /\ lcall.op = "none"
    /\ \E tx \in InsertTargetXs, ty \in InsertTargetYs, w \in InsertWidths,
          h \in InsertHeights, p \in InsertPaddings :
        LayoutOutcome([op |-> "find_insert_position", target_x |-> tx, target_y |-> ty,
                       item_width |-> w, item_height |-> h, padding |-> p, outcome |-> ""],
                      call_find_insert_position(board, tx, ty, w, h, p))
    /\ UNCHANGED <<board, routerVars, threadVars, globalVars>>

NextLayoutAny ==
    \/ AddAnyObject
    \/ CallGetBoardBounds
    \/ CallDescribeBoardLayout
    \/ CallFindOpenPositionAny
    \/ CallFindInsertPositionAny
    \/ LayoutReturn

SpecLayoutAny == Init /\ [][NextLayoutAny]_vars

(***************************************************************************)
(* BBox.overlaps on its own                                                *)
(***************************************************************************)
CallOverlaps ==
    /\ lcall.op = "none"
    /\ \E self \in Boxes, other \in Boxes, padding \in OverlapPaddings :
        /\ lcall' = [op |-> "overlaps", self |-> self, other |-> other, padding |-> padding]
        /\ lresult' = <<overlaps(self, other, padding)>>
    /\ UNCHANGED <<board, routerVars, threadVars, globalVars>>

NextOverlaps ==
    \/ CallOverlaps
    \/ LayoutReturn

SpecOverlaps == Init /\ [][NextOverlaps]_vars

(***************************************************************************)
(* The router on its own                                                   *)
(***************************************************************************)
CallRoute ==
    /\ rcall.op = "none"
    /\ \E pb \in RouterCommands, bs \in BoardsOver(RouterPool, MaxRouteObjs), u \in Uuids :
        /\ rcall' = [op |-> "try_deterministic_route", prefix |-> pb[1], body |-> pb[2],
                     command |-> CommandText(pb),
                     board_state |-> bs, trace_id |-> "trace", uuid4 |-> u]
        /\ rresult' = try_deterministic_route(CommandText(pb), bs, "board", "trace", u)
    /\ UNCHANGED <<layoutVars, threadVars, globalVars>>

\* the caller has consumed the result
RouteReturn ==
    /\ rcall.op # "none"
    /\ rcall' = [op |-> "none"]
    /\ rresult' = PyNone
    /\ UNCHANGED <<layoutVars, threadVars, globalVars>>

NextRouter ==
    \/ CallRoute
    \/ RouteReturn

SpecRouter == Init /\ [][NextRouter]_vars

(***************************************************************************)
(* The tool-set classifier on its own                                      *)
(***************************************************************************)
CallClassifyToolSet ==
    /\ rcall.op = "none"
    /\ \E pb \in RouterCommands :
        /\ rcall' = [op |-> "_classify_tool_set", prefix |-> pb[1], body |-> pb[2],
                     command |-> CommandText(pb)]
        /\ rresult' = [key |-> classify_tool_set(CommandText(pb))]
    /\ UNCHANGED <<layoutVars, threadVars, globalVars>>

NextClassify ==
    \/ CallClassifyToolSet
    \/ RouteReturn

SpecClassify == Init /\ [][NextClassify]_vars

(***************************************************************************)
(* The service: handle_command, run_agent, get_agent                       *)
(***************************************************************************)
\* handle_command rejects a blank command with HTTP 400
HandleCommandBlank(t) ==
    /\ pc[t] = "idle"
    /\ served < MaxRequests
    /\ \E c \in RequestCommands : Strip(c) = <<>>
    /\ served' = served + 1
    /\ UNCHANGED <<layoutVars, routerVars, threadVars, current_board_state, records,
                   agent_cache, api_keys, agents_built>>

\* handle_command hands the request to run_agent on a worker thread
HandleCommand(t) ==
    /\ pc[t] = "idle"
    /\ served < MaxRequests
    /\ \E c \in RequestCommands, bs \in RequestBoards, m \in ModelIds :
        /\ Strip(c) # <<>>
        /\ req' = [req EXCEPT ![t] = [command |-> c, board_state |-> bs,
                                      board_id |-> "board", model |-> m,
                                      number |-> served + 1]]
    /\ served' = served + 1
    /\ pc' = [pc EXCEPT ![t] = "run_agent"]
    /\ UNCHANGED <<layoutVars, routerVars, run_trace_id, deterministic_result, tool_set_key,
                   agent, result, calls, tool_reads, current_board_state, records,
                   agent_cache, api_keys, agents_built>>

\* run_agent: trace_id = uuid4(), a value no other request has;
\* set_board_state(board_state)
RunAgentSetBoardState(t) ==
    /\ pc[t] = "run_agent"
    /\ run_trace_id' = [run_trace_id EXCEPT ![t] = req[t].number]
    /\ current_board_state' = req[t].board_state
    /\ calls' = [calls EXCEPT ![t] = Append(@, "set_board_state")]
    /\ pc' = [pc EXCEPT ![t] = "route"]
    /\ UNCHANGED <<layoutVars, routerVars, req, deterministic_result, tool_set_key, agent,
                   result, tool_reads, records, agent_cache, api_keys, served, agents_built>>

\* the objects the router has handed out to the requests still in flight, as
\* board objects
created_in_flight(t) ==
    LET others == {u \in Threads : u # t /\ ~ IsNone(deterministic_result[u])}
        made(u) == SelectSeq(deterministic_result[u].actions, LAMBDA a : a.action = "create")
        as_object(a) == [id |-> <<>>, type |-> a.object_type, x |-> a.props.x, y |-> a.props.y,
                         width |-> a.props.width, height |-> a.props.height]
        RECURSIVE all(_)
        all(S) == IF S = {} THEN <<>>
                  ELSE LET u == CHOOSE v \in S : TRUE
                       IN  [i \in 1..Len(made(u)) |-> as_object(made(u)[i])] \o all(S \ {u})
    IN  all(others)

\* run_agent with a router that keeps the objects it created for earlier
\* requests in mind when it places the next one
RunAgentRoute_remembers_created(t) ==
    /\ pc[t] = "route"
    /\ \E u \in RequestUuids :
        deterministic_result' = [deterministic_result EXCEPT ![t] =
            try_deterministic_route(req[t].command, req[t].board_state \o created_in_flight(t),
                                    req[t].board_id, run_trace_id[t], u)]
    /\ pc' = [pc EXCEPT ![t] =
                IF IsNone(deterministic_result'[t]) THEN "agent_path" ELSE "matched"]
    /\ calls' = [calls EXCEPT ![t] = Append(@, "try_deterministic_route")]
    /\ UNCHANGED <<layoutVars, routerVars, req, run_trace_id, tool_set_key, agent, result,
                   tool_reads, globalVars>>

\* run_agent: deterministic_result = try_deterministic_route(...)
RunAgentRoute(t) ==
    /\ pc[t] = "route"
    /\ \E u \in RequestUuids :
        deterministic_result' = [deterministic_result EXCEPT ![t] =
            try_deterministic_route(req[t].command, req[t].board_state,
                                    req[t].board_id, run_trace_id[t], u)]
    /\ pc' = [pc EXCEPT ![t] =
                IF IsNone(deterministic_result'[t]) THEN "agent_path" ELSE "matched"]
    /\ calls' = [calls EXCEPT ![t] = Append(@, "try_deterministic_route")]
    /\ UNCHANGED <<layoutVars, routerVars, req, run_trace_id, tool_set_key, agent, result,
                   tool_reads, globalVars>>

\* run_agent without the early return: the zero-cost call is recorded and the
\* agent path runs all the same
RunAgentRecordDeterministic_falls_through(t) ==
    /\ pc[t] = "matched"
    /\ records' = record(records, "deterministic", 0, 0, run_trace_id[t], "deterministic_route")
    /\ calls' = [calls EXCEPT ![t] = Append(@, "cost_tracker.record")]
    /\ pc' = [pc EXCEPT ![t] = "agent_path"]
    /\ UNCHANGED <<layoutVars, routerVars, req, run_trace_id, deterministic_result,
                   tool_set_key, agent, result, tool_reads, current_board_state,
                   agent_cache, api_keys, served, agents_built>>

\* run_agent: the router matched; record the zero-cost call and return its result
RunAgentRecordDeterministic(t) ==
    /\ pc[t] = "matched"
    /\ records' = record(records, "deterministic", 0, 0, run_trace_id[t], "deterministic_route")
    /\ calls' = [calls EXCEPT ![t] = Append(@, "cost_tracker.record")]
    /\ result' = [result EXCEPT ![t] = deterministic_result[t]]
    /\ pc' = [pc EXCEPT ![t] = "return"]
    /\ UNCHANGED <<layoutVars, routerVars, req, run_trace_id, deterministic_result,
                   tool_set_key, agent, tool_reads, current_board_state, agent_cache,
                   api_keys, served, agents_built>>

\* run_agent: spec = get_model_spec(model_id); tool_set_key = _classify_tool_set(command)
RunAgentClassify(t) ==
    /\ pc[t] = "agent_path"
    /\ tool_set_key' = [tool_set_key EXCEPT ![t] = classify_tool_set(req[t].command)]
    /\ calls' = [calls EXCEPT ![t] = @ \o <<"get_model_spec", "_classify_tool_set">>]
    /\ pc' = [pc EXCEPT ![t] = "get_agent"]
    /\ UNCHANGED <<layoutVars, routerVars, req, run_trace_id, deterministic_result, agent,
                   result, tool_reads, globalVars>>

\* get_agent, first critical section: return the cached agent on a hit
GetAgentLookup(t) ==
    /\ pc[t] = "get_agent"
    /\ LET cache_key == <<req[t].model, tool_set_key[t]>>
       IN  IF CacheHas(agent_cache, cache_key)
           THEN /\ agent' = [agent EXCEPT ![t] = CacheGet(agent_cache, cache_key)]
                /\ pc' = [pc EXCEPT ![t] = "invoke"]
           ELSE /\ agent' = agent
                /\ pc' = [pc EXCEPT ![t] = "build_agent"]
    /\ calls' = [calls EXCEPT ![t] = Append(@, "get_agent")]
    /\ UNCHANGED <<layoutVars, routerVars, req, run_trace_id, deterministic_result,
                   tool_set_key, result, tool_reads, globalVars>>

\* get_agent: _create_llm raises; the exception leaves run_agent and handle_command
GetAgentCreateFails(t) ==
    /\ pc[t] = "build_agent"
    /\ create_llm_raises(get_model_spec(req[t].model), api_keys)
    /\ pc' = [pc EXCEPT ![t] = "return"]
    /\ UNCHANGED <<layoutVars, routerVars, req, run_trace_id, deterministic_result,
                   tool_set_key, agent, result, calls, tool_reads, globalVars>>

\* get_agent: build the agent outside the lock, then insert it under the lock
GetAgentCreate(t) ==
    /\ pc[t] = "build_agent"
    /\ ~ create_llm_raises(get_model_spec(req[t].model), api_keys)
    /\ agents_built' = agents_built + 1
    /\ agent_cache' = cache_insert(agent_cache, <<req[t].model, tool_set_key[t]>>,
                                   agents_built + 1)
    /\ agent' = [agent EXCEPT ![t] = agents_built + 1]
    /\ pc' = [pc EXCEPT ![t] = "invoke"]
    /\ UNCHANGED <<layoutVars, routerVars, req, run_trace_id, deterministic_result,
                   tool_set_key, result, calls, tool_reads, current_board_state, records,
                   api_keys, served>>

\* agent.invoke is running: the model calls one of the layout tools (get_board_layout,
\* find_free_space, find_position_near, list_board_objects, find_objects_by_text),
\* which reads _current_board_state
ToolCall(t) ==
    /\ pc[t] \in {"invoke", "invoking"}
    /\ Len(tool_reads[t]) < MaxToolCalls
    /\ tool_reads' = [tool_reads EXCEPT ![t] = Append(@, current_board_state)]
    /\ calls' = [calls EXCEPT ![t] = IF pc[t] = "invoke" THEN Append(@, "agent.invoke") ELSE @]
    /\ pc' = [pc EXCEPT ![t] = "invoking"]
    /\ UNCHANGED <<layoutVars, routerVars, req, run_trace_id, deterministic_result,
                   tool_set_key, agent, result, globalVars>>

\* agent.invoke raises: run_agent returns the error result, nothing is recorded
AgentInvokeFails(t) ==
    /\ pc[t] \in {"invoke", "invoking"}
    /\ result' = [result EXCEPT ![t] =
                    [message |-> [fmt |-> "Agent error: {e}", arg |-> <<>>],
                     actions |-> <<>>, actions_performed |-> <<>>,
                     trace_id |-> run_trace_id[t]]]
    /\ calls' = [calls EXCEPT ![t] = IF pc[t] = "invoke" THEN Append(@, "agent.invoke") ELSE @]
    /\ pc' = [pc EXCEPT ![t] = "return"]
    /\ UNCHANGED <<layoutVars, routerVars, req, run_trace_id, deterministic_result,
                   tool_set_key, agent, tool_reads, globalVars>>

\* agent.invoke returns: collect the actions, record the cost, return the result
RunAgentRecord(t) ==
    /\ pc[t] \in {"invoke", "invoking"}
    /\ \E o \in AgentOutcomes :
        /\ records' = record(records, get_model_spec(req[t].model).api_model_name,
                             IF o.input_tokens # 0 THEN o.input_tokens
                             ELSE SplitCount(req[t].command) * 4,
                             IF o.output_tokens # 0 THEN o.output_tokens
                             ELSE o.actions_repr_len \div 4,
                             run_trace_id[t], classify_operation(req[t].command))
        /\ result' = [result EXCEPT ![t] =
                        [message |-> [fmt |-> o.message, arg |-> <<>>],
                         actions |-> o.actions,
                         actions_performed |->
                            [i \in 1..Len(o.actions) |-> "create_sticky_note: sticky"],
                         trace_id |-> run_trace_id[t],
                         fit_to_view |-> o.fit_to_view]]
    /\ calls' = [calls EXCEPT ![t] =
                    (IF pc[t] = "invoke" THEN Append(@, "agent.invoke") ELSE @)
                        \o <<"cost_tracker.record">>]
    /\ pc' = [pc EXCEPT ![t] = "return"]
    /\ UNCHANGED <<layoutVars, routerVars, req, run_trace_id, deterministic_result,
                   tool_set_key, agent, tool_reads, current_board_state, agent_cache,
                   api_keys, served, agents_built>>

\* handle_command sends the response (or the error); the worker thread is free again
HandleCommandRespond(t) ==
    /\ pc[t] = "return"
    /\ pc' = [pc EXCEPT ![t] = "idle"]
    /\ req' = [req EXCEPT ![t] = NoRequest]
    /\ run_trace_id' = [run_trace_id EXCEPT ![t] = 0]
    /\ deterministic_result' = [deterministic_result EXCEPT ![t] = PyNone]
    /\ tool_set_key' = [tool_set_key EXCEPT ![t] = ""]
    /\ agent' = [agent EXCEPT ![t] = 0]
    /\ result' = [result EXCEPT ![t] = PyNone]
    /\ calls' = [calls EXCEPT ![t] = <<>>]
    /\ tool_reads' = [tool_reads EXCEPT ![t] = <<>>]
    /\ UNCHANGED <<layoutVars, routerVars, globalVars>>

Next ==
    \E t \in Threads :
        \/ HandleCommandBlank(t)
        \/ HandleCommand(t)
        \/ RunAgentSetBoardState(t)
        \/ RunAgentRoute(t)
        \/ RunAgentRecordDeterministic(t)
        \/ RunAgentClassify(t)
        \/ GetAgentLookup(t)
        \/ GetAgentCreateFails(t)
        \/ GetAgentCreate(t)
        \/ ToolCall(t)
        \/ AgentInvokeFails(t)
        \/ RunAgentRecord(t)
        \/ HandleCommandRespond(t)

Spec == Init /\ [][Next]_vars

(***************************************************************************)
(* get_agent on its own: concurrent calls on a cache an earlier run filled *)
(***************************************************************************)
InitCache ==
    /\ board = <<>>
    /\ lcall = [op |-> "none"]
    /\ lresult = <<>>
    /\ rcall = [op |-> "none"]
    /\ rresult = PyNone
    /\ pc = [t \in Threads |-> "idle"]
    /\ req = [t \in Threads |-> NoRequest]
    /\ run_trace_id = [t \in Threads |-> 0]
    /\ deterministic_result = [t \in Threads |-> PyNone]
    /\ tool_set_key = [t \in Threads |-> ""]
    /\ agent = [t \in Threads |-> 0]
    /\ result = [t \in Threads |-> PyNone]
    /\ calls = [t \in Threads |-> <<>>]
    /\ tool_reads = [t \in Threads |-> <<>>]
    /\ current_board_state = <<>>
    /\ records = <<>>
    /\ \E n \in CacheFills :
        /\ agent_cache = FilledCache(n)
        /\ agents_built = n
    /\ api_keys = {"openai"}
    /\ served = 0

\* a thread calls get_agent(model_id, tool_set_key)
CallGetAgent(t) ==
    /\ pc[t] = "idle"
    /\ served < MaxGetAgentCalls
    /\ \E key \in GetAgentKeys :
        /\ req' = [req EXCEPT ![t] = [NoRequest EXCEPT !.model = key[1]]]
        /\ tool_set_key' = [tool_set_key EXCEPT ![t] = key[2]]
    /\ served' = served + 1
    /\ pc' = [pc EXCEPT ![t] = "get_agent"]
    /\ UNCHANGED <<layoutVars, routerVars, run_trace_id, deterministic_result, agent, result,
                   calls, tool_reads, current_board_state, records, agent_cache, api_keys,
                   agents_built>>

\* get_agent has returned the agent, or the exception of _create_llm has left it
GetAgentReturn(t) ==
    /\ pc[t] \in {"invoke", "return"}
    /\ pc' = [pc EXCEPT ![t] = "idle"]
    /\ req' = [req EXCEPT ![t] = NoRequest]
    /\ tool_set_key' = [tool_set_key EXCEPT ![t] = ""]
    /\ agent' = [agent EXCEPT ![t] = 0]
    /\ calls' = [calls EXCEPT ![t] = <<>>]
    /\ UNCHANGED <<layoutVars, routerVars, run_trace_id, deterministic_result, result,
                   tool_reads, globalVars>>

NextCache ==
    \E t \in Threads :
        \/ CallGetAgent(t)
        \/ GetAgentLookup(t)
        \/ GetAgentCreateFails(t)
        \/ GetAgentCreate(t)
        \/ GetAgentReturn(t)

SpecCache == InitCache /\ [][NextCache]_vars

(***************************************************************************)
(* Properties of the layout service (checked under SpecLayout)             *)
(***************************************************************************)
IsOpenCall   == lcall.op = "find_open_position"
IsInsertCall == lcall.op = "find_insert_position"
CallWidth    == IF IsOpenCall THEN lcall.needed_width ELSE lcall.item_width
CallHeight   == IF IsOpenCall THEN lcall.needed_height ELSE lcall.item_height
BoardBoxes   == extract_bboxes(board)
ResultBox    == BBox(lresult[1], lresult[2], CallWidth, CallHeight)
InCanvas     == /\ 0 <= lresult[1] /\ lresult[1] <= CANVAS_WIDTH - CallWidth
                /\ 0 <= lresult[2] /\ lresult[2] <= CANVAS_HEIGHT - CallHeight

\* C1 as stated: every result of find_open_position and find_insert_position,
\* for any board and any sizes, lies in [0, CANVAS_WIDTH - width] x
\* [0, CANVAS_HEIGHT - height].
C1_ClampBoundsAsStated == (IsOpenCall \/ IsInsertCall) => InCanvas

\* C1 amended: the result is never negative.  A find_open_position call on a board
\* without non-connector objects returns the fixed anchor (100, 100), whatever the
\* block's size.  Every other call clamps: the result lies in
\* [0, CANVAS_WIDTH - width] x [0, CANVAS_HEIGHT - height] when the block is no
\* larger than the canvas, and a coordinate whose side exceeds the canvas is 0.
C1_ClampBounds ==
    (IsOpenCall \/ IsInsertCall) =>
        /\ lresult[1] >= 0 /\ lresult[2] >= 0
        /\ (IsOpenCall /\ BoardBoxes = <<>>) => lresult = <<100, 100>>
        /\ (IsInsertCall \/ BoardBoxes # <<>>) =>
            /\ (CallWidth <= CANVAS_WIDTH /\ CallHeight <= CANVAS_HEIGHT) => InCanvas
            /\ CallWidth > CANVAS_WIDTH => lresult[1] = 0
            /\ CallHeight > CANVAS_HEIGHT => lresult[2] = 0

\* C1 witness: a find_open_position call on a non-empty board whose block fits the
\* canvas and whose x was cut back to the right limit.
C1_Witness ==
    /\ IsOpenCall /\ BoardBoxes # <<>> /\ lcall.prefer = "right"
    /\ CallWidth <= CANVAS_WIDTH /\ CallHeight <= CANVAS_HEIGHT
    /\ get_board_bounds(board).max_x + lcall.padding > CANVAS_WIDTH - CallWidth
    /\ lresult[1] = CANVAS_WIDTH - CallWidth

\* C2: with prefer = "right" on a board with a non-connector object the returned x
\* is at least max_x + padding: the block starts beyond the bounding rectangle.
C2_BeyondBounds ==
    (IsOpenCall /\ lcall.prefer = "right" /\ BoardBoxes # <<>>) =>
        lresult[1] >= get_board_bounds(board).max_x + lcall.padding

\* C3: the box find_insert_position returns overlaps no existing non-connector
\* object, for every board, target and item size.
C3_InsertNeverOverlaps ==
    IsInsertCall => \A i \in 1..Len(BoardBoxes) : ~ overlaps(ResultBox, BoardBoxes[i], 0)

\* a position at which the item keeps the call's padding to every existing box
PaddedFree(pos) ==
    \A i \in 1..Len(BoardBoxes) :
        LET c == BBox(pos[1], pos[2], lcall.item_width, lcall.item_height)
            b == BoardBoxes[i]
        IN  \/ c.x + c.width + lcall.padding <= b.x
            \/ b.x + b.width + lcall.padding <= c.x
            \/ c.y + c.height + lcall.padding <= b.y
            \/ b.y + b.height + lcall.padding <= c.y

ClampedTarget == insert_clamp(lcall.target_x, lcall.target_y, lcall.item_width, lcall.item_height)
Probes == ring_probes(ClampedTarget[1], ClampedTarget[2], lcall.item_width,
                      lcall.item_height, lcall.padding)

\* C4: when the clamped target or one of the 95 ring probes keeps the padding to
\* every existing box, so does the position find_insert_position returns.
C4_InsertConvergence ==
    IsInsertCall =>
        ( (PaddedFree(ClampedTarget) \/ \E k \in 1..Len(Probes) : PaddedFree(Probes[k]))
            => PaddedFree(lresult) )

\* C4 witness: the target is blocked, a ring probe is free, and that probe is returned.
C4_Witness ==
    /\ IsInsertCall /\ Len(Probes) = 95
    /\ ~ PaddedFree(ClampedTarget)
    /\ \E k \in 1..Len(Probes) : PaddedFree(Probes[k]) /\ lresult = Probes[k]

OpenRight == open_clamp(get_board_bounds(board).max_x + lcall.padding,
                        get_board_bounds(board).min_y, lcall.needed_width, lcall.needed_height)
OpenBelow == open_clamp(get_board_bounds(board).min_x,
                        get_board_bounds(board).max_y + lcall.padding,
                        lcall.needed_width, lcall.needed_height)

\* C5 as stated: with prefer = "auto" on a non-empty board the block goes right iff
\* total_height > total_width, and below otherwise (equal sides included).
C5_AutoAsStated ==
    (IsOpenCall /\ lcall.prefer = "auto" /\ BoardBoxes # <<>>) =>
        LET b == get_board_bounds(board)
        IN  /\ (b.total_height > b.total_width) => lresult = OpenRight
            /\ (b.total_height <= b.total_width) => lresult = OpenBelow

\* C5 amended: with prefer = "auto" on a non-empty board the block goes right iff
\* total_width <= total_height (equal sides included), and below otherwise.
C5_Auto ==
    (IsOpenCall /\ lcall.prefer = "auto" /\ BoardBoxes # <<>>) =>
        LET b == get_board_bounds(board)
        IN  /\ (b.total_width <= b.total_height) => lresult = OpenRight
            /\ (b.total_width > b.total_height) => lresult = OpenBelow

\* C5 witness: an "auto" call on bounds as wide as tall, placed to the right, where
\* right and below are different positions.
C5_Witness ==
    /\ IsOpenCall /\ lcall.prefer = "auto" /\ BoardBoxes # <<>>
    /\ get_board_bounds(board).total_width = get_board_bounds(board).total_height
    /\ OpenRight # OpenBelow
    /\ lresult = OpenRight

(***************************************************************************)
(* Properties of run_agent                                                 *)
(***************************************************************************)
\* the calls of the agent path
AgentPathCalls == {"get_model_spec", "_classify_tool_set", "get_agent", "agent.invoke"}

CallsOf(t) == {calls[t][i] : i \in 1..Len(calls[t])}

\* the cost records of thread t's run_agent call
RecordsOf(t) == SelectSeq(records, LAMBDA r : r.trace_id = run_trace_id[t])

\* the router handled thread t's run_agent call
RoutedDeterministically(t) == ~ IsNone(deterministic_result[t])

DeterministicRecord(t) ==
    [model |-> "deterministic", input_tokens |-> 0, output_tokens |-> 0, cost_usd |-> 0,
     trace_id |-> run_trace_id[t], operation |-> "deterministic_route"]

\* C6: a run_agent call the deterministic router handles consults the router
\* first, never calls the classifier, get_agent or agent.invoke, and has appended
\* exactly one cost record when it returns: model "deterministic", 0 input and 0
\* output tokens, cost 0, operation "deterministic_route".  A call reaches the
\* agent path only after the router was consulted and returned no match.
C6_DeterministicBeforeAgent ==
    \A t \in Threads :
        /\ RoutedDeterministically(t) =>
            /\ CallsOf(t) \cap AgentPathCalls = {}
            /\ \E n \in 0..3 :
                calls[t] = SubSeq(<<"set_board_state", "try_deterministic_route",
                                    "cost_tracker.record">>, 1, n)
            /\ pc[t] = "return" =>
                /\ RecordsOf(t) = << DeterministicRecord(t) >>
                /\ result[t] = deterministic_result[t]
            /\ pc[t] # "return" => RecordsOf(t) = <<>>
        /\ CallsOf(t) \cap AgentPathCalls # {} =>
            /\ IsNone(deterministic_result[t])
            /\ Len(calls[t]) >= 3
            /\ calls[t][2] = "try_deterministic_route"
            /\ \A i \in 1..2 : calls[t][i] \notin AgentPathCalls

\* a routed call has returned while the other thread is inside agent.invoke
C6_Witness ==
    \E t, u \in Threads :
        /\ t # u
        /\ pc[t] = "return"
        /\ RoutedDeterministically(t)
        /\ RecordsOf(t) = << DeterministicRecord(t) >>
        /\ pc[u] = "invoking"

\* C7: every layout tool call made during one run_agent invocation reads the
\* board_state passed to that invocation, whatever other requests are running.
C7_ToolsReadOwnBoard ==
    \A t \in Threads :
        \A i \in 1..Len(tool_reads[t]) : tool_reads[t][i] = req[t].board_state

(***************************************************************************)
(* Properties of the deterministic router                                  *)
(***************************************************************************)
IsRouteCall == rcall.op = "try_deterministic_route"

Routed == IsRouteCall /\ ~ IsNone(rresult)

\* the ids of the objects of the board_state the router was called with
BoardIds == {Get(rcall.board_state[i], "id", <<>>) : i \in 1..Len(rcall.board_state)}

IsFitView(r) == r.actions = <<>> /\ r.fit_to_view = TRUE /\ r.actions_performed = <<"fit_view">>

IsSingleCreate(r) == Len(r.actions) = 1 /\ r.actions[1].action = "create"

\* C8: every update or delete action the router returns carries the id of an
\* object of the board_state it was called with.
C8_ObjectIdOnBoard ==
    Routed =>
        \A i \in 1..Len(rresult.actions) :
            rresult.actions[i].action \in {"update", "delete"} =>
                rresult.actions[i].object_id \in BoardIds

\* C9: a command that does not begin with a well-formed selection marker gets no
\* delete and no update action: the result is a fit-view response, a single
\* create action, or no match.
C9_NoMarkerNoMutation ==
    (IsRouteCall /\ rcall.prefix \notin WellFormedPrefixes) =>
        \/ IsNone(rresult)
        \/ IsFitView(rresult)
        \/ IsSingleCreate(rresult)

\* a delete phrase after a marker that is not at the start of the command: no match
C9_Witness ==
    /\ IsRouteCall
    /\ rcall.prefix = "not_first"
    /\ rcall.body = "delete_this"
    /\ IsNone(rresult)

\* the sticky text of the multi-line bodies
MultiLineText ==
    [k \in MultiLineBodies |->
        IF k = "two_lines" THEN <<"l", "i", "n", "e", "1", "\n", "l", "i", "n", "e", "2">>
        ELSE <<"a", "\n", "b", "\n", "c">>]

\* C10: a create-sticky command whose text spans several lines is matched, and
\* the create action's text is the whole multi-line content, newlines included.
C10_MultiLineStickyMatched ==
    (IsRouteCall /\ rcall.prefix = "none" /\ rcall.body \in MultiLineBodies) =>
        /\ ~ IsNone(rresult)
        /\ IsSingleCreate(rresult)
        /\ rresult.actions[1].props.text = MultiLineText[rcall.body]

\* the selected id each well-formed marker names
PrefixId ==
    [p \in WellFormedPrefixes |->
        CASE p = "plain" -> <<"s", "1">>
          [] p = "with_text" -> <<"r", "1">>
          [] p = "ghost" -> <<"z", "z", "9">>
          [] p = "odd_type" -> <<"s", "1">>]

\* the prefixes under which a create command is still a create command
CreatePrefixes == {"none"} \cup WellFormedPrefixes

IsSingleUpdate(r) == Len(r.actions) = 1 /\ r.actions[1].action = "update"

\* create commands that match and name no colour
NoColorCreateBodies == {"add_note", "quoted", "len_1", "len_30", "len_81", "len_151"}
\* commands whose colour word is not one of the eight keywords in any spelling
UnknownColorBodies == {"create_mauve", "make_mauve"}
\* commands whose colour word is accepted by the case-insensitive pattern but does
\* not lower-case to a keyword of the table
OddSpellingCreateBodies == {"create_dotless", "create_dotted"}
OddSpellingRecolorBodies == {"recolor_dotless", "recolor_dotted"}

\* C11 as stated: a create command with no colour word or with a colour word
\* outside the table yields a create action coloured #FEF08A, and a recolor
\* command naming a colour outside the table yields an update with #FEF08A.
C11_ColorDefaultAsStated ==
    IsRouteCall =>
        /\ ( /\ rcall.prefix \in CreatePrefixes
             /\ rcall.body \in NoColorCreateBodies \cup {"create_mauve"}
                                \cup OddSpellingCreateBodies ) =>
                /\ ~ IsNone(rresult)
                /\ IsSingleCreate(rresult)
                /\ rresult.actions[1].props.color = "#FEF08A"
        /\ ( /\ rcall.prefix \in WellFormedPrefixes
             /\ rcall.body \in {"make_mauve"} \cup OddSpellingRecolorBodies ) =>
                /\ ~ IsNone(rresult)
                /\ IsSingleUpdate(rresult)
                /\ rresult.actions[1].props.color = "#FEF08A"

\* C11 amended: a create command with no colour word yields a create action
\* coloured #FEF08A.  A colour word that is none of the eight keywords in any
\* spelling makes the command match neither the create nor the recolor pattern:
\* the router returns no match.  The #FEF08A fallback of the table lookup is
\* taken only for a spelling the case-insensitive pattern accepts but str.lower()
\* does not turn into a keyword (U+0130 or U+0131 for "i"), on both paths.
C11_ColorDefault ==
    IsRouteCall =>
        /\ (rcall.prefix \in CreatePrefixes
                /\ rcall.body \in NoColorCreateBodies \cup OddSpellingCreateBodies) =>
                /\ ~ IsNone(rresult)
                /\ IsSingleCreate(rresult)
                /\ rresult.actions[1].props.color = "#FEF08A"
        /\ rcall.body \in UnknownColorBodies => IsNone(rresult)
        /\ (rcall.prefix \in WellFormedPrefixes /\ rcall.body \in OddSpellingRecolorBodies) =>
                /\ ~ IsNone(rresult)
                /\ IsSingleUpdate(rresult)
                /\ rresult.actions[1].props.color = "#FEF08A"
                /\ rresult.actions[1].props.fill = "#FEF08A"

\* a create command without a colour word, created in the default colour
C11_Witness ==
    /\ IsRouteCall
    /\ rcall.prefix = "none"
    /\ rcall.body = "add_note"
    /\ ~ IsNone(rresult)
    /\ IsSingleCreate(rresult)
    /\ rresult.actions[1].props.color = "#FEF08A"

\* the keyword each colour command names, and the hex the table gives it
CreateColorOf ==
    [b \in {"create_blue", "create_yellow", "create_green", "create_red", "create_purple",
            "create_orange", "create_pink", "create_white"} |->
        CASE b = "create_blue" -> "#93C5FD"
          [] b = "create_yellow" -> "#FEF08A"
          [] b = "create_green" -> "#86EFAC"
          [] b = "create_red" -> "#FCA5A5"
          [] b = "create_purple" -> "#DDD6FE"
          [] b = "create_orange" -> "#FED7AA"
          [] b = "create_pink" -> "#FECACA"
          [] b = "create_white" -> "#FFFFFF"]

RecolorColorOf ==
    [b \in {"make_blue", "recolor_yellow", "set_green", "change_red", "recolor_purple",
            "recolor_orange", "recolor_pink", "recolor_white"} |->
        CASE b = "make_blue" -> "#93C5FD"
          [] b = "recolor_yellow" -> "#FEF08A"
          [] b = "set_green" -> "#86EFAC"
          [] b = "change_red" -> "#FCA5A5"
          [] b = "recolor_purple" -> "#DDD6FE"
          [] b = "recolor_orange" -> "#FED7AA"
          [] b = "recolor_pink" -> "#FECACA"
          [] b = "recolor_white" -> "#FFFFFF"]

\* C12: for every keyword of the colour table, in any letter case, a create command
\* with that colour yields a create action of exactly the mapped hex, and a recolor
\* command with a selected object yields exactly one update action that names the
\* selected id and sets props.color and props.fill to exactly the mapped hex.
C12_ColorClosure ==
    IsRouteCall =>
        /\ (rcall.prefix \in CreatePrefixes /\ rcall.body \in DOMAIN CreateColorOf) =>
                /\ ~ IsNone(rresult)
                /\ IsSingleCreate(rresult)
                /\ rresult.actions[1].props.color = CreateColorOf[rcall.body]
        /\ (rcall.prefix \in WellFormedPrefixes /\ rcall.body \in DOMAIN RecolorColorOf) =>
                /\ ~ IsNone(rresult)
                /\ IsSingleUpdate(rresult)
                /\ rresult.actions[1].object_id = PrefixId[rcall.prefix]
                /\ rresult.actions[1].props = [color |-> RecolorColorOf[rcall.body],
                                               fill |-> RecolorColorOf[rcall.body]]

\* "set it color to GREEN" with a selected rect: one update to #86EFAC
C12_Witness ==
    /\ IsRouteCall
    /\ rcall.prefix = "with_text"
    /\ rcall.body = "set_green"
    /\ ~ IsNone(rresult)
    /\ IsSingleUpdate(rresult)
    /\ rresult.actions[1].object_id = <<"r", "1">>
    /\ rresult.actions[1].props.color = "#86EFAC"

\* a call of the layout service on a board as the client sent it
IsAnyLayoutCall == "outcome" \in DOMAIN lcall

\* what the call returns once every missing or malformed field has its default
DefaultedResult ==
    CASE lcall.op = "get_board_bounds" -> get_board_bounds(board)
      [] lcall.op = "describe_board_layout" -> describe_board_layout(board)
      [] lcall.op = "find_open_position" ->
             find_open_position(board, lcall.needed_width, lcall.needed_height,
                                lcall.padding, lcall.prefer)
      [] lcall.op = "find_insert_position" ->
             find_insert_position(board, lcall.target_x, lcall.target_y,
                                  lcall.item_width, lcall.item_height, lcall.padding)

\* C13: get_board_bounds, find_open_position, find_insert_position and
\* describe_board_layout never raise, whatever board_state holds: a missing or
\* malformed (null, non-numeric) x, y, width or height is read as 0, 0, 200, 200
C13_TotalOnAnyBoard ==
    IsAnyLayoutCall => /\ lcall.outcome = "returned"
                       /\ lresult = DefaultedResult

\* a router result with the generated temp_id and the supplied trace_id left out
WithoutIds(r) ==
    IF IsNone(r) THEN r
    ELSE [message |-> r.message,
          actions_performed |-> r.actions_performed,
          fit_to_view |-> r.fit_to_view,
          actions |-> [i \in 1..Len(r.actions) |->
                          [action |-> r.actions[i].action,
                           object_type |-> r.actions[i].object_type,
                           object_id |-> Get(r.actions[i], "object_id", <<>>),
                           props |-> r.actions[i].props]]]

\* thread t's run_agent call has the router's answer in hand
HasRouted(t) == "try_deterministic_route" \in CallsOf(t)

SameRouterInput(t, u) ==
    /\ req[t].command = req[u].command
    /\ req[t].board_state = req[u].board_state

\* C14: two invocations of the router with the same command and board_state
\* return the same message, actions_performed, fit_to_view and ordered action
\* list (action, object_type, object_id, props); they differ at most in temp_id
\* and trace_id, whichever of the two ran first and whatever ran in between.
C14_RouterDeterminism ==
    \A t, u \in Threads :
        (HasRouted(t) /\ HasRouted(u) /\ SameRouterInput(t, u)) =>
            WithoutIds(deterministic_result[t]) = WithoutIds(deterministic_result[u])

\* two requests with the same create command on the same board: one action list,
\* two trace ids, two temp ids
C14_Witness ==
    \E t, u \in Threads :
        /\ t # u
        /\ HasRouted(t) /\ HasRouted(u) /\ SameRouterInput(t, u)
        /\ RoutedDeterministically(t) /\ RoutedDeterministically(u)
        /\ IsSingleCreate(deterministic_result[t])
        /\ deterministic_result[t].trace_id # deterministic_result[u].trace_id
        /\ deterministic_result[t].actions[1].temp_id # deterministic_result[u].actions[1].temp_id
        /\ WithoutIds(deterministic_result[t]) = WithoutIds(deterministic_result[u])

\* the scenario of C15: one 200x200 box at (0, 0) on the board, and a 100x100
\* item aimed at (0, 0) with padding 20
C15_Scenario ==
    /\ IsInsertCall
    /\ BoardBoxes = << BBox(0, 0, 200, 200) >>
    /\ lcall.target_x = 0 /\ lcall.target_y = 0
    /\ lcall.item_width = 100 /\ lcall.item_height = 100
    /\ lcall.padding = 20

\* the "right" offset of ring number distance: distance steps of
\* item_width + padding to the right of the target
RightOfTarget(distance) ==
    <<lcall.target_x + distance * (lcall.item_width + lcall.padding), lcall.target_y>>

\* C15 as stated: in the scenario the result is shifted right by at least
\* 100 + 20 = 120 and is the first ring's "right" offset.
C15_FirstRingRightAsStated ==
    C15_Scenario => /\ lresult[1] >= lcall.target_x + 120
                    /\ lresult = RightOfTarget(1)

\* C15 amended: in the scenario all five probes of the first ring are within the
\* padding of the box; the result is the second ring's "right" offset, (240, 0),
\* which is shifted right by at least 120.
C15_SecondRingRight ==
    C15_Scenario => /\ lresult[1] >= lcall.target_x + 120
                    /\ \A k \in 1..5 : ~ PaddedFree(Probes[k])
                    /\ lresult = RightOfTarget(2)
                    /\ lresult = <<240, 0>>

C15_Witness ==
    /\ C15_Scenario
    /\ board = <<ObjSticky>>
    /\ lresult = <<240, 0>>

\* the (width, height, font_size) the tier table gives a text of length L
TierOf(L) ==
    CASE L <= 30 -> [width |-> 160, height |-> 100, font_size |-> 16]
      [] 30 < L /\ L <= 80 -> [width |-> 200, height |-> 140, font_size |-> 15]
      [] 80 < L /\ L <= 150 -> [width |-> 220, height |-> 180, font_size |-> 14]
      [] OTHER -> [width |-> 250, height |-> 220, font_size |-> 13]

HasCreate(r) == \E i \in 1..Len(r.actions) : r.actions[i].action = "create"

\* C16: a matched create-sticky command with non-empty text of length L yields
\* exactly one create action, of object_type sticky, whose (width, height,
\* font_size) is (160,100,16) if L <= 30, (200,140,15) if 30 < L <= 80,
\* (220,180,14) if 80 < L <= 150 and (250,220,13) otherwise; on an empty board it
\* is placed at x = 100, y = 100.  The texts of 1, 30, 31, 80, 81, 150 and 151
\* characters are matched and keep their length.
C16_TextLengthTiers ==
    IsRouteCall =>
        /\ (rcall.prefix \in CreatePrefixes /\ rcall.body \in DOMAIN TierTextLength) =>
                /\ ~ IsNone(rresult)
                /\ IsSingleCreate(rresult)
                /\ Len(rresult.actions[1].props.text) = TierTextLength[rcall.body]
        /\ (~ IsNone(rresult) /\ HasCreate(rresult)) =>
                /\ IsSingleCreate(rresult)
                /\ rresult.actions[1].object_type = S_sticky
                /\ rresult.actions[1].props.text # <<>>
                /\ LET props == rresult.actions[1].props
                       tier == TierOf(Len(props.text))
                   IN  /\ props.width = tier.width
                       /\ props.height = tier.height
                       /\ props.font_size = tier.font_size
                       /\ rcall.board_state = <<>> => (props.x = 100 /\ props.y = 100)

\* a text of exactly 30 characters on an empty board: the smallest tier at (100, 100)
C16_Witness ==
    /\ IsRouteCall
    /\ rcall.body = "len_30"
    /\ rcall.board_state = <<>>
    /\ ~ IsNone(rresult)
    /\ IsSingleCreate(rresult)
    /\ Len(rresult.actions[1].props.text) = 30
    /\ rresult.actions[1].props.width = 160
    /\ rresult.actions[1].props.height = 100
    /\ rresult.actions[1].props.font_size = 16
    /\ rresult.actions[1].props.x = 100 /\ rresult.actions[1].props.y = 100

\* the type each well-formed marker names
PrefixType ==
    [p \in WellFormedPrefixes |->
        CASE p = "plain" -> S_sticky
          [] p = "with_text" -> <<"r", "e", "c", "t">>
          [] p = "ghost" -> S_sticky
          [] p = "odd_type" -> <<"w", "i", "d", "g", "e", "t">>]

\* the bodies of the form delete/remove this/it/that/the X
DeleteBodies == {"delete_this", "remove_the", "delete_it", "remove_that", "delete_the_frame"}

HasDelete(r) == \E i \in 1..Len(r.actions) : r.actions[i].action = "delete"

\* C17: a command with a selected-object marker whose remaining text is
\* delete/remove this/it/that/the X yields exactly one delete action: object_id is
\* the selected id, object_type the selected type, props is empty and fit_to_view
\* is false.  No other command yields a delete action.
C17_DeleteSelected ==
    IsRouteCall =>
        /\ (rcall.prefix \in WellFormedPrefixes /\ rcall.body \in DeleteBodies) =>
                /\ ~ IsNone(rresult)
                /\ Len(rresult.actions) = 1
                /\ rresult.actions[1].action = "delete"
                /\ rresult.actions[1].object_id = PrefixId[rcall.prefix]
                /\ rresult.actions[1].object_type = PrefixType[rcall.prefix]
                /\ rresult.actions[1].props = <<>>
                /\ "temp_id" \notin DOMAIN rresult.actions[1]
                /\ rresult.fit_to_view = FALSE
        /\ (~ IsNone(rresult) /\ HasDelete(rresult)) =>
                /\ rcall.prefix \in WellFormedPrefixes
                /\ rcall.body \in DeleteBodies

\* "delete the frame_2" after a marker naming id s1 of type widget
C17_Witness ==
    /\ IsRouteCall
    /\ rcall.prefix = "odd_type"
    /\ rcall.body = "delete_the_frame"
    /\ ~ IsNone(rresult)
    /\ Len(rresult.actions) = 1
    /\ rresult.actions[1].action = "delete"
    /\ rresult.actions[1].object_id = <<"s", "1">>
    /\ rresult.actions[1].object_type = <<"w", "i", "d", "g", "e", "t">>
    /\ rresult.fit_to_view = FALSE

\* s.split(): the maximal runs of non-whitespace characters, in order
Words(s) ==
    LET starts == {i \in 1..Len(s) : s[i] \notin WhiteSpace /\ (i = 1 \/ s[i - 1] \in WhiteSpace)}
        start(k) == CHOOSE i \in starts : Cardinality({j \in starts : j < i}) = k - 1
        end(i) == CHOOSE j \in i..Len(s) :
                      /\ \A n \in i..j : s[n] \notin WhiteSpace
                      /\ (j = Len(s) \/ s[j + 1] \in WhiteSpace)
    IN  [k \in 1..Cardinality(starts) |-> SubSeq(s, start(k), end(start(k)))]

\* fit view, fit to screen, fit everything, zoom to fit, show all, see everything
FitViewPhrases ==
    { <<S_fit, S_view>>, <<S_fit, S_to, S_screen>>, <<S_fit, S_everything>>,
      <<S_zoom, S_to, S_fit>>, <<S_show, S_all>>, <<S_see, S_everything>> }

\* the command is one of the phrases in some letter case, after an optional marker
IsFitViewPhrase ==
    /\ rcall.prefix \in CreatePrefixes
    /\ Words(Lower(BodyText(rcall.body))) \in FitViewPhrases

\* C18 as stated: a command that is one of the fit-view phrases in any letter
\* case, after stripping and an optional marker, yields actions = [] and
\* fit_to_view = true on every board; every other router result has
\* fit_to_view = false.
C18_FitViewAsStated ==
    IsRouteCall =>
        /\ IsFitViewPhrase => (~ IsNone(rresult) /\ IsFitView(rresult))
        /\ (~ IsNone(rresult) /\ ~ IsFitViewPhrase) => rresult.fit_to_view = FALSE

\* the bodies _FIT_VIEW_RE accepts: the phrases in any letter case, with any
\* whitespace between the words, and with U+0130 written for i
FitViewBodies ==
    {"fit_view", "zoom", "fit_screen", "fit_everything", "show_all", "see_everything",
     "fit_padded", "fit_dotted"}

\* C18 amended: a command that _FIT_VIEW_RE accepts after stripping and an
\* optional marker yields actions = [] and fit_to_view = true on every board and
\* with every selection; this includes a phrase spelt with U+0130 for i, which is
\* no letter-case variant of it.  fit_to_view is true for no other command, and
\* every result that carries an action has fit_to_view = false.
C18_FitView ==
    IsRouteCall =>
        /\ (rcall.prefix \in CreatePrefixes /\ rcall.body \in FitViewBodies) =>
                (~ IsNone(rresult) /\ IsFitView(rresult))
        /\ ~ IsNone(rresult) =>
                /\ rresult.fit_to_view \in BOOLEAN
                /\ rresult.fit_to_view = TRUE =>
                        /\ rcall.prefix \in CreatePrefixes /\ rcall.body \in FitViewBodies
                        /\ rresult.actions = <<>>
                /\ rresult.actions # <<>> => rresult.fit_to_view = FALSE

\* "Fit To Screen" after a marker, on a board with an object
C18_Witness ==
    /\ IsRouteCall
    /\ rcall.prefix = "plain"
    /\ rcall.body = "fit_screen"
    /\ rcall.board_state # <<>>
    /\ ~ IsNone(rresult)
    /\ IsFitView(rresult)

IsClassifyCall == rcall.op = "_classify_tool_set"

\* the categories in the order the claim gives them
CategoryOrder == <<"document", "sprint", "chart", "diagram", "board_only">>

\* one of the category's keywords occurs in the lower-cased command
HasKeywordOf(category, command) ==
    \E r \in 1..Len(TOOL_SET_KEYWORDS) :
        /\ TOOL_SET_KEYWORDS[r].key = category
        /\ \E k \in 1..Len(TOOL_SET_KEYWORDS[r].words) :
               Contains(Lower(command), TOOL_SET_KEYWORDS[r].words[k])

\* the commands that carry keywords of several categories, and the earliest of them
SeveralCategories ==
    [b \in {"cls_doc_sprint", "cls_sprint_chart", "cls_chart_diagram", "cls_diagram_board"} |->
        CASE b = "cls_doc_sprint" -> "document"
          [] b = "cls_sprint_chart" -> "sprint"
          [] b = "cls_chart_diagram" -> "chart"
          [] b = "cls_diagram_board" -> "diagram"]

\* C19: _classify_tool_set returns the first category, in the order document,
\* sprint, chart, diagram, board_only, one of whose keywords is a substring of the
\* lower-cased command, and "all" when no category has one; a command with
\* keywords of several categories gets the earliest of them.
C19_FirstCategoryWins ==
    IsClassifyCall =>
        LET having == {i \in 1..Len(CategoryOrder) : HasKeywordOf(CategoryOrder[i], rcall.command)}
        IN  /\ having = {} => rresult.key = "all"
            /\ having # {} =>
                   rresult.key = CategoryOrder[CHOOSE i \in having : \A j \in having : i <= j]
            /\ rcall.body \in DOMAIN SeveralCategories =>
                   /\ Cardinality(having) >= 2
                   /\ rresult.key = SeveralCategories[rcall.body]

\* "kanban with a pie chart and sticky notes" has sprint, chart and board-edit
\* keywords and is classified sprint
C19_Witness ==
    /\ IsClassifyCall
    /\ rcall.prefix = "none"
    /\ rcall.body = "cls_sprint_chart"
    /\ HasKeywordOf("sprint", rcall.command)
    /\ HasKeywordOf("chart", rcall.command)
    /\ HasKeywordOf("board_only", rcall.command)
    /\ rresult.key = "sprint"

\* the board holds no object other than connectors
OnlyConnectors == \A i \in 1..Len(board) : Get(board[i], "type", "None") = "connector"

\* C20: find_open_position returns exactly (100, 100) whenever board_state holds
\* no non-connector object (the empty list, or connectors only), for every
\* needed_width, needed_height, padding and prefer.
C20_EmptyBoardAnchor ==
    (IsOpenCall /\ OnlyConnectors) => lresult = <<100, 100>>

\* connectors only, a block wider than the canvas, prefer = "below", padding 0
C20_Witness ==
    /\ IsOpenCall
    /\ board # <<>>
    /\ OnlyConnectors
    /\ lcall.needed_width > CANVAS_WIDTH
    /\ lcall.prefer = "below"
    /\ lcall.padding = 0
    /\ lresult = <<100, 100>>

IsOverlapsCall == lcall.op = "overlaps"

\* neither box is separated from the other by at least p on any axis
NotSeparated(A, B, p) ==
    ~ ( \/ A.x + A.width + p <= B.x
        \/ B.x + B.width + p <= A.x
        \/ A.y + A.height + p <= B.y
        \/ B.y + B.height + p <= A.y )

\* C21: for all boxes A and B and every padding p, A.overlaps(B, p) equals
\* B.overlaps(A, p), and both equal
\* NOT (A.right+p <= B.x OR B.right+p <= A.x OR A.bottom+p <= B.y OR B.bottom+p <= A.y).
C21_OverlapSymmetry ==
    IsOverlapsCall =>
        /\ lresult[1] = overlaps(lcall.other, lcall.self, lcall.padding)
        /\ lresult[1] = NotSeparated(lcall.self, lcall.other, lcall.padding)

\* two distinct boxes 10 apart that overlap only because of the padding of 20
C21_Witness ==
    /\ IsOverlapsCall
    /\ lcall.self = BBox(0, 0, 100, 100)
    /\ lcall.other = BBox(110, 0, 200, 100)
    /\ lcall.padding = 20
    /\ lresult[1] = TRUE
    /\ overlaps(lcall.other, lcall.self, lcall.padding) = TRUE
    /\ overlaps(lcall.self, lcall.other, 0) = FALSE

\* bodies that carry a fit-view, delete or recolor phrase with further words
\* before it, after it, or on a following line
EmbeddedPhraseBodies ==
    {"please_delete", "delete_now", "delete_two_words", "delete_newline_more",
     "fit_please", "please_fit", "fit_newline_more",
     "blue_please", "please_recolor"}

\* the sticky text each of these create commands carries up to its last character
StickyTextToEnd ==
    [b \in {"create_blue", "create_then_delete"} |->
        CASE b = "create_blue" -> <<"H", "e", "l", "l", "o", " ", "W", "o", "r", "l", "d">>
          [] b = "create_then_delete" -> S_delete \o <<" ">> \o S_this]

\* C22: a command that carries a fit-view, delete or recolor phrase with extra
\* words before or after it is matched by no stage, with or without a selection;
\* the sticky text alone runs to the end of the command, whatever words it holds.
C22_WholeStringAnchored ==
    IsRouteCall =>
        /\ rcall.body \in EmbeddedPhraseBodies => IsNone(rresult)
        /\ (rcall.prefix \in CreatePrefixes /\ rcall.body \in DOMAIN StickyTextToEnd) =>
                /\ ~ IsNone(rresult)
                /\ IsSingleCreate(rresult)
                /\ rresult.actions[1].props.text = StickyTextToEnd[rcall.body]

\* "delete this now" after a well-formed marker: no match
C22_Witness ==
    /\ IsRouteCall
    /\ rcall.prefix = "plain"
    /\ rcall.body = "delete_now"
    /\ IsNone(rresult)

(***************************************************************************)
(* Properties of the agent cache (checked under SpecCache)                 *)
(***************************************************************************)
\* the keys the cache holds, in the order a dict iterates over them
CacheKeys(cache) == [i \in 1..Len(cache) |-> cache[i].key]

\* C23: under any interleaving of concurrent get_agent calls with any keys the
\* agent cache never holds more than _MAX_AGENT_CACHE_SIZE = 20 entries (and, being
\* a dict, never holds a key twice)
C23_CacheBounded ==
    /\ Len(agent_cache) <= MAX_AGENT_CACHE_SIZE
    /\ \A i, j \in 1..Len(agent_cache) :
        agent_cache[i].key = agent_cache[j].key => i = j

\* a new key has been inserted into a full cache: the cache is full again, its
\* newest entry is a key the earlier run never cached, its oldest entry is gone
C23_Witness ==
    /\ Len(agent_cache) = MAX_AGENT_CACHE_SIZE
    /\ agent_cache[MAX_AGENT_CACHE_SIZE].key[2] \in {"u", "v"}
    /\ ~ CacheHas(agent_cache, <<"gpt-4o-mini", CachedToolSets[1]>>)

\* the keys of a cache as a set
CacheKeySet(cache) == {cache[i].key : i \in 1..Len(cache)}

\* the step is the second critical section of some get_agent call
IsInsertion == \E t \in Threads : pc[t] = "build_agent" /\ pc'[t] = "invoke"

\* the step is the first critical section of a get_agent call that finds its key
IsCacheHit ==
    \E t \in Threads :
        /\ pc[t] = "get_agent"
        /\ pc'[t] = "invoke"

\* C24: the cache evicts in insertion order. A step removes an entry only if it is
\* an insertion into a cache of 20 entries, and then it removes exactly the entry
\* at the head of the dict, whose key was inserted before every other cached key;
\* the keys that stay keep their order, a new key goes to the end; a cache hit
\* leaves the cache as it is
C24_EvictsInInsertionOrder ==
    [][ LET old == CacheKeys(agent_cache)
            new == CacheKeys(agent_cache')
        IN  /\ CacheKeySet(agent_cache) \ CacheKeySet(agent_cache') # {}
                => /\ IsInsertion
                   /\ Len(agent_cache) = MAX_AGENT_CACHE_SIZE
                   /\ CacheKeySet(agent_cache) \ CacheKeySet(agent_cache') = {old[1]}
                   /\ \/ new = Tail(old)
                      \/ /\ Len(new) = Len(old)
                         /\ SubSeq(new, 1, Len(new) - 1) = Tail(old)
            /\ CacheKeySet(agent_cache) \subseteq CacheKeySet(agent_cache')
                => \/ new = old
                   \/ /\ IsInsertion
                      /\ Len(new) = Len(old) + 1
                      /\ SubSeq(new, 1, Len(old)) = old
                      /\ new[Len(new)] \notin CacheKeySet(agent_cache)
            /\ IsCacheHit => agent_cache' = agent_cache
      ]_vars

\* two new keys have been inserted into a full cache one after the other: the two
\* oldest keys are gone and the third oldest is at the head
C24_Witness ==
    /\ Len(agent_cache) = MAX_AGENT_CACHE_SIZE
    /\ agent_cache[1].key = <<"gpt-4o-mini", CachedToolSets[3]>>
    /\ {agent_cache[MAX_AGENT_CACHE_SIZE - 1].key[2],
        agent_cache[MAX_AGENT_CACHE_SIZE].key[2]} = {"u", "v"}

\* the probe the claim names: ring number distance (1..19), direction number
\* dir (1 right, 2 below, 3 left, 4 above, 5 diagonal), the step item_width +
\* padding on both axes, measured from the clamped target and clamped itself
StatedProbe(distance, dir) ==
    LET step == lcall.item_width + lcall.padding
        dx == CASE dir = 1 -> distance * step
                [] dir = 2 -> 0
                [] dir = 3 -> 0 - distance * step
                [] dir = 4 -> 0
                [] dir = 5 -> distance * step
        dy == CASE dir = 1 -> 0
                [] dir = 2 -> distance * step
                [] dir = 3 -> 0
                [] dir = 4 -> 0 - distance * step
                [] dir = 5 -> distance * step
        x == ClampedTarget[1] + dx
        y == ClampedTarget[2] + dy
    IN  << IF x < 0 THEN 0
           ELSE IF x > CANVAS_WIDTH - lcall.item_width
                THEN Max(0, CANVAS_WIDTH - lcall.item_width) ELSE x,
           IF y < 0 THEN 0
           ELSE IF y > CANVAS_HEIGHT - lcall.item_height
                THEN Max(0, CANVAS_HEIGHT - lcall.item_height) ELSE y >>

\* probe (d1, k1) is tried before probe (d2, k2)
TriedBefore(d1, k1, d2, k2) == d1 < d2 \/ (d1 = d2 /\ k1 < k2)

\* C25: when the clamped target is within the padding of an existing box,
\* find_insert_position returns the first probe, in the order distance 1..19 and
\* within a distance right, below, left, above, diagonal, that keeps the padding
\* to every box; only if all 95 probes fail it returns the fallback
\* clamp(max_x + padding, target_y)
C25_FirstFreeProbe ==
    (IsInsertCall /\ ~ PaddedFree(ClampedTarget)) =>
        \/ \E d \in 1..19, k \in 1..5 :
            /\ lresult = StatedProbe(d, k)
            /\ PaddedFree(StatedProbe(d, k))
            /\ \A d2 \in 1..19, k2 \in 1..5 :
                TriedBefore(d2, k2, d, k) => ~ PaddedFree(StatedProbe(d2, k2))
        \/ /\ \A d \in 1..19, k \in 1..5 : ~ PaddedFree(StatedProbe(d, k))
           /\ lresult = insert_clamp(get_board_bounds(board).max_x + lcall.padding,
                                     ClampedTarget[2], lcall.item_width, lcall.item_height)

\* the right probes of the first rings are blocked and a probe of another
\* direction is the first free one and is returned
C25_Witness ==
    /\ IsInsertCall
    /\ ~ PaddedFree(ClampedTarget)
    /\ \E d \in 1..19, k \in 2..5 :
        /\ lresult = StatedProbe(d, k)
        /\ PaddedFree(lresult)
        /\ \A d2 \in 1..d : lresult # StatedProbe(d2, 1) /\ ~ PaddedFree(StatedProbe(d2, 1))

\* every probe is blocked and the fallback is returned
C25_FallbackReached ==
    /\ IsInsertCall
    /\ \A d \in 1..19, k \in 1..5 : ~ PaddedFree(StatedProbe(d, k))

IsBoundsCall == lcall.op = "get_board_bounds" /\ "outcome" \notin DOMAIN lcall

\* the objects of the board that are not connectors
NonConnectors == {i \in 1..Len(board) : Get(board[i], "type", "None") # "connector"}

\* the edges of object i, a missing x or y read as 0, a missing width or height as 200
LeftEdge(i)   == IF "x" \in DOMAIN board[i] THEN board[i].x ELSE 0
TopEdge(i)    == IF "y" \in DOMAIN board[i] THEN board[i].y ELSE 0
RightEdge(i)  == LeftEdge(i) + (IF "width" \in DOMAIN board[i] THEN board[i].width ELSE 200)
BottomEdge(i) == TopEdge(i) + (IF "height" \in DOMAIN board[i] THEN board[i].height ELSE 200)

\* v is the least (greatest) of the values Edge(i) over the non-connector objects
IsLeast(v, Edge(_)) ==
    /\ \E i \in NonConnectors : Edge(i) = v
    /\ \A i \in NonConnectors : v <= Edge(i)
IsGreatest(v, Edge(_)) ==
    /\ \E i \in NonConnectors : Edge(i) = v
    /\ \A i \in NonConnectors : v >= Edge(i)

\* C26: get_board_bounds returns the minimal enclosing rectangle of the
\* non-connector objects (missing width/height 200, missing x/y 0): the least left
\* and top edges, the greatest right and bottom edges, their differences and the
\* number of non-connector objects; connectors never change the result, and a board
\* without a non-connector object gives all zeros
C26_MinimalEnclosingRectangle ==
    IsBoundsCall =>
        /\ NonConnectors = {} =>
            lresult = [min_x |-> 0, min_y |-> 0, max_x |-> 0, max_y |-> 0,
                       total_width |-> 0, total_height |-> 0, object_count |-> 0]
        /\ NonConnectors # {} =>
            /\ IsLeast(lresult.min_x, LeftEdge)
            /\ IsLeast(lresult.min_y, TopEdge)
            /\ IsGreatest(lresult.max_x, RightEdge)
            /\ IsGreatest(lresult.max_y, BottomEdge)
            /\ lresult.total_width = lresult.max_x - lresult.min_x
            /\ lresult.total_height = lresult.max_y - lresult.min_y
            /\ lresult.object_count = Cardinality(NonConnectors)
        /\ lresult = get_board_bounds(
                        SelectSeq(board, LAMBDA obj : Get(obj, "type", "None") # "connector"))

\* an object left of and above the origin and an object without width and height
\* that reaches beyond the canvas
C26_Witness ==
    /\ IsBoundsCall
    /\ board = <<ObjOutside, ObjCorner>>
    /\ lresult = [min_x |-> -150, min_y |-> -50, max_x |-> 4100, max_y |-> 3100,
                  total_width |-> 4250, total_height |-> 3150, object_count |-> 2]

\* the bounds of a board that holds a connector next to a box
C26_ConnectorIgnored ==
    /\ IsBoundsCall
    /\ board = <<ObjWide, ObjConn>>
    /\ lresult.min_x = 300 /\ lresult.object_count = 1

\* C27: the sticky note the router creates lies inside the canvas for every
\* board_state and every text length: 0 <= x, 0 <= y, x + width <= 4000 and
\* y + height <= 3000 with the width and height emitted in the action
C27_StickyInsideCanvas ==
    (Routed /\ HasCreate(rresult)) =>
        \A i \in 1..Len(rresult.actions) :
            rresult.actions[i].action = "create" =>
                LET props == rresult.actions[i].props
                IN  /\ 0 <= props.x
                    /\ 0 <= props.y
                    /\ props.x + props.width <= CANVAS_WIDTH
                    /\ props.y + props.height <= CANVAS_HEIGHT

\* C28: every action the router returns is accepted by the BoardAction schema of
\* the response: its action is create, update or delete and its object_type is
\* one of sticky, rect, circle, text, frame, connector, image, whatever type the
\* selected-object marker names
C28_ActionsMatchSchema ==
    Routed => \A i \in 1..Len(rresult.actions) : BoardAction_accepts(rresult.actions[i])

\* C29: get_agent builds at most one agent per key while the key stays cached:
\* under any interleaving of concurrent calls with the same key, a step that does
\* not evict the key leaves the cached instance of it in place, and the caller
\* that completes an insertion for a key that was cached holds the cached instance
C29_OneAgentPerKey ==
    [][ /\ \A i \in 1..Len(agent_cache) :
            CacheHas(agent_cache', agent_cache[i].key) =>
                CacheGet(agent_cache', agent_cache[i].key) = agent_cache[i].agent
        /\ \A t \in Threads :
            LET cache_key == <<req[t].model, tool_set_key[t]>>
            IN  (pc[t] = "build_agent" /\ pc'[t] = "invoke"
                    /\ CacheHas(agent_cache, cache_key)
                    /\ (Len(agent_cache) < MAX_AGENT_CACHE_SIZE
                            \/ agent_cache[1].key # cache_key))
                    => agent'[t] = CacheGet(agent_cache, cache_key)
      ]_vars

\* the second critical section of a call whose key is not in the cache
InsertsNewKey ==
    \E t \in Threads :
        /\ pc[t] = "build_agent"
        /\ pc'[t] = "invoke"
        /\ ~ CacheHas(agent_cache, <<req[t].model, tool_set_key[t]>>)

\* C30: get_agent evicts only when it inserts a key that is not yet cached into a
\* cache of 20 entries: a step that removes a key is such an insertion, a cache of
\* 20 entries holds 20 entries after every step, and a call whose key a
\* concurrent call has cached in the meantime removes no key
C30_EvictsOnlyForNewKey ==
    [][ /\ CacheKeySet(agent_cache) \ CacheKeySet(agent_cache') # {}
            => (InsertsNewKey /\ Len(agent_cache) = MAX_AGENT_CACHE_SIZE)
        /\ Len(agent_cache) = MAX_AGENT_CACHE_SIZE
            => Len(agent_cache') = MAX_AGENT_CACHE_SIZE
      ]_vars

====
